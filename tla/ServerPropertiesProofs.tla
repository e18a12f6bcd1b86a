------------------------ MODULE ServerPropertiesProofs ------------------------
(***************************************************************************)
(* Who takes part in a decryption, for any users, usersets, operations and *)
(* plans: no member fills two slots or is asked twice for a part, and      *)
(* register_part finds its record.                                         *)
(*                                                                         *)
(* The argument keeps two accounts per member and operation.  Invitations: *)
(* a member is told of a lookup once, so it asks to participate once, and  *)
(* fills one slot.  Debts: a participant owes one part until it is         *)
(* registered.  Then one can count: participants are exactly as many as    *)
(* the record requires, and each part comes from another one.  So when     *)
(* register_part sees enough parts, all participants have sent theirs, and *)
(* nobody is left who could send one to the record it erases.              *)
(***************************************************************************)
EXTENDS ServerProperties, ConnectedClientHandlerProofs, FiniteSetTheorems

\* Nobody is listed both as an owner and as a non-owner: what the usersets
\* are made with is taken from the user, and checked nowhere.
MembersListedOnce ==
    /\ \A p \in Plans : p.owners \cap p.reg_members = {}
    /\ \A s \in UserSetIDs :
          Stored[s] # Absent => Stored[s].owners \cap Stored[s].reg_members = {}

-----------------------------------------------------------------------------
\* Where it is recorded that m is invited to participate in o: a thread still
\* has to register the lookup, m's updates hold it, it is on its way to m, m's
\* client has it, or m's thread is about to register m as a participant.
LookupBy(m, o) ==
    {u \in Users : /\ pc[u] = "dec_lookup"
                   /\ frame[u].op = o
                   /\ m \in frame[u].todo.owners \cup frame[u].todo.reg_members}

Asking(m, o) == pc[m] \in {"par_find", "par_reg"} /\ frame[m].op = o

LookupOnTheWay(m, o) == reply[m].kind = "Updates" /\ o \in reply[m].updates.on_lookup

Invitations(m, o) ==
    ({"lookup"} \X LookupBy(m, o))
    \cup (IF o \in updates[m].on_lookup THEN {<<"update", m>>} ELSE {})
    \cup (IF LookupOnTheWay(m, o) THEN {<<"reply", m>>} ELSE {})
    \cup (IF o \in client[m].lookups THEN {<<"client", m>>} ELSE {})
    \cup (IF Asking(m, o) THEN {<<"asking", m>>} ELSE {})

\* Whom an operation that is being prepared may still admit.
MayBeAdmitted(m, o) ==
    /\ m \in MembersOf(prep[o].userset)
    /\ m # prep[o].requester
    /\ m \notin prep[o].owners_found \cup prep[o].reg_members_found

\* An invitation is recorded in one place, and its holder can be admitted.
InvitedOnce(m, o) ==
    /\ Invitations(m, o) # {} =>
          o \in allOpIDs /\ (prep[o] # Absent => MayBeAdmitted(m, o))
    /\ \A d, e \in Invitations(m, o) : d = e

\* A debt is recorded in one place, and the operation waits for that part.
OwedOnce(m, o) ==
    /\ Debts(m, o) # {} => collected[o] # Absent /\ m \in Missing(o)
    /\ \A d, e \in Debts(m, o) : d = e

\* What holds of an operation while it looks for participants ...
Preparing(o) ==
    prep[o] # Absent =>
        LET r == prep[o] IN
        /\ o \in allOpIDs
        /\ collected[o] = Absent
        /\ InStorage(r.userset)
        /\ r.owners_found \subseteq usersets[r.userset].owners
        /\ r.reg_members_found \subseteq MembersOf(r.userset)
        /\ r.owners_found \cap r.reg_members_found = {}
        /\ r.requester \notin r.owners_found \cup r.reg_members_found
        /\ Cardinality(r.owners_found) <= r.required_owners
        /\ Cardinality(r.reg_members_found) <= r.required_reg_members

\* ... and while it collects: the participants are as many as required, and
\* each part comes from another one.
Collecting(o) ==
    collected[o] # Absent =>
        LET r == collected[o] IN
        /\ o \in allOpIDs
        /\ team[o] # Absent
        /\ InStorage(r.userset)
        /\ team[o].owners \subseteq usersets[r.userset].owners
        /\ team[o].reg_members \subseteq MembersOf(r.userset)
        /\ r.requester \notin Participants(o)
        /\ Cardinality(Participants(o)) = r.required_owners + r.required_reg_members
        /\ Cardinality(team[o].owners) = r.required_owners
        /\ Contributors(o) \subseteq Participants(o)
        /\ Cardinality(Contributors(o)) =
               Len(r.owner_layer_parts) + Len(r.reg_layer_parts)

\* An operation between new_operation and prepare_operation is known to one
\* thread only.
FreshOperation(u) ==
    pc[u] = "dec_prep" =>
        LET o == frame[u].op IN
        /\ o \in allOpIDs
        /\ prep[o] = Absent /\ collected[o] = Absent
        /\ \A m \in Users : Invitations(m, o) = {}
        /\ \A v \in Users : pc[v] = "dec_prep" /\ frame[v].op = o => v = u

\* What a thread does is about the operation and the member it is for.
OwnDuty(u) ==
    /\ pc[u] \in {"snd_find", "snd_reg"} => frame[u].part.by = u
    /\ pc[u] = "par_reg" /\ prep[frame[u].op] # Absent =>
          frame[u].userset = prep[frame[u].op].userset
    /\ pc[u] \in {"dec_lookup", "par_tell"} =>
          frame[u].todo.owners \cap frame[u].todo.reg_members = {}

DisjointMembers ==
    \A s \in UserSetIDs :
        InStorage(s) => usersets[s].owners \cap usersets[s].reg_members = {}

\* The inductive invariant, on top of IInv.
AccountsInv ==
    /\ DisjointMembers
    /\ \A m \in Users, o \in OpIDs : InvitedOnce(m, o) /\ OwedOnce(m, o)
    /\ \A o \in OpIDs : Preparing(o) /\ Collecting(o)
    /\ \A u \in Users : FreshOperation(u) /\ OwnDuty(u)

-----------------------------------------------------------------------------
\* No operation exists yet, and nobody has been invited or asked for a part.
LEMMA InitAccountsInv == MembersListedOnce /\ Init => AccountsInv
<1> SUFFICES ASSUME MembersListedOnce, Init PROVE AccountsInv
  OBVIOUS
<1>1. ASSUME NEW m \in Users, NEW o \in OpIDs
      PROVE  Debts(m, o) = {} /\ Invitations(m, o) = {}
  <2>1. Debts(m, o) = {}
    BY DEF Init, UMInit, Debts, ToldBy, InUpdates, OnTheWay, AtClient, Sending,
           NoUpdates, NoReply
  <2>2. Invitations(m, o) = {}
    BY DEF Init, UMInit, Invitations, LookupBy, LookupOnTheWay, Asking,
           NoUpdates, NoReply
  <2> QED
    BY <2>1, <2>2
<1>2. DisjointMembers
  BY DEF Init, MembersListedOnce, DisjointMembers, InStorage
<1>3. \A m \in Users, o \in OpIDs : InvitedOnce(m, o) /\ OwedOnce(m, o)
  BY <1>1 DEF InvitedOnce, OwedOnce
<1>4. \A o \in OpIDs : Preparing(o) /\ Collecting(o)
  BY DEF Init, DMInit, Preparing, Collecting
<1>5. \A u \in Users : FreshOperation(u) /\ OwnDuty(u)
  BY DEF Init, FreshOperation, OwnDuty
<1> QED
  BY <1>2, <1>3, <1>4, <1>5 DEF AccountsInv

-----------------------------------------------------------------------------
\* Lemmas about the parts of the invariant.

\* Debts and invitations may be settled, and may move from one place to another.
DebtMoves(m, o) ==
    \/ Debts(m, o)' \subseteq Debts(m, o)
    \/ Debts(m, o) # {} /\ \E d : Debts(m, o)' \subseteq {d}

InvitationMoves(m, o) ==
    \/ Invitations(m, o)' \subseteq Invitations(m, o)
    \/ Invitations(m, o) # {} /\ \E d : Invitations(m, o)' \subseteq {d}

\* Usersets in storage stay as they are.
StorageKept ==
    /\ \A s \in UserSetIDs : InStorage(s) => InStorage(s)' /\ usersets'[s] = usersets[s]
    /\ DisjointMembers'

\* The places of an invitation, and of a debt, exclude each other.
LEMMA OneInvitation ==
    ASSUME AccountsInv, NEW m \in Users, NEW o \in OpIDs
    PROVE  LET looked == LookupBy(m, o)
               waits == o \in updates[m].on_lookup
               sent == LookupOnTheWay(m, o)
               told == o \in client[m].lookups
               asks == Asking(m, o)
           IN  /\ \A v \in looked : looked = {v}
               /\ looked # {} => ~waits /\ ~sent /\ ~told /\ ~asks
               /\ waits => ~sent /\ ~told /\ ~asks
               /\ sent => ~told /\ ~asks
               /\ told => ~asks
<1>1. \A d, e \in Invitations(m, o) : d[1] = e[1] /\ d[2] = e[2]
  BY DEF AccountsInv, InvitedOnce
<1>2. /\ \A v \in LookupBy(m, o) : <<"lookup", v>> \in Invitations(m, o)
      /\ o \in updates[m].on_lookup => <<"update", m>> \in Invitations(m, o)
      /\ LookupOnTheWay(m, o) => <<"reply", m>> \in Invitations(m, o)
      /\ o \in client[m].lookups => <<"client", m>> \in Invitations(m, o)
      /\ Asking(m, o) => <<"asking", m>> \in Invitations(m, o)
  BY DEF Invitations
<1>3. \A v \in LookupBy(m, o) : LookupBy(m, o) = {v}
  BY <1>1, <1>2
<1>4. LookupBy(m, o) # {} =>
        /\ o \notin updates[m].on_lookup /\ ~LookupOnTheWay(m, o)
        /\ o \notin client[m].lookups /\ ~Asking(m, o)
  BY <1>1, <1>2
<1>5. o \in updates[m].on_lookup =>
        ~LookupOnTheWay(m, o) /\ o \notin client[m].lookups /\ ~Asking(m, o)
  BY <1>1, <1>2
<1>6. /\ LookupOnTheWay(m, o) => o \notin client[m].lookups /\ ~Asking(m, o)
      /\ o \in client[m].lookups => ~Asking(m, o)
  BY <1>1, <1>2
<1> QED
  BY <1>3, <1>4, <1>5, <1>6

LEMMA OneDebt ==
    ASSUME AccountsInv, NEW m \in Users, NEW o \in OpIDs
    PROVE  LET toTell == ToldBy(m, o)
               waits == InUpdates(m, o)
               sent == OnTheWay(m, o)
               works == AtClient(m, o)
               sends == Sending(m, o)
           IN  /\ \A v \in toTell : toTell = {v}
               /\ \A t \in waits : waits = {t}
               /\ \A t \in sent : sent = {t}
               /\ \A t \in works : works = {t}
               /\ toTell # {} => waits = {} /\ sent = {} /\ works = {} /\ ~sends
               /\ waits # {} => sent = {} /\ works = {} /\ ~sends
               /\ sent # {} => works = {} /\ ~sends
               /\ works # {} => ~sends
<1>1. \A d, e \in Debts(m, o) : d[1] = e[1] /\ d[2] = e[2]
  BY DEF AccountsInv, OwedOnce
<1>2. /\ \A v \in ToldBy(m, o) : <<"tell", v>> \in Debts(m, o)
      /\ \A t \in InUpdates(m, o) : <<"update", t>> \in Debts(m, o)
      /\ \A t \in OnTheWay(m, o) : <<"reply", t>> \in Debts(m, o)
      /\ \A t \in AtClient(m, o) : <<"task", t>> \in Debts(m, o)
      /\ Sending(m, o) => <<"send", m>> \in Debts(m, o)
  BY DEF Debts
<1>3. /\ \A v \in ToldBy(m, o) : ToldBy(m, o) = {v}
      /\ \A t \in InUpdates(m, o) : InUpdates(m, o) = {t}
      /\ \A t \in OnTheWay(m, o) : OnTheWay(m, o) = {t}
      /\ \A t \in AtClient(m, o) : AtClient(m, o) = {t}
  BY <1>1, <1>2
<1>4. ToldBy(m, o) # {} =>
        InUpdates(m, o) = {} /\ OnTheWay(m, o) = {} /\ AtClient(m, o) = {} /\ ~Sending(m, o)
  BY <1>1, <1>2
<1>5. InUpdates(m, o) # {} =>
        OnTheWay(m, o) = {} /\ AtClient(m, o) = {} /\ ~Sending(m, o)
  BY <1>1, <1>2
<1>6. /\ OnTheWay(m, o) # {} => AtClient(m, o) = {} /\ ~Sending(m, o)
      /\ AtClient(m, o) # {} => ~Sending(m, o)
  BY <1>1, <1>2
<1> QED
  BY <1>3, <1>4, <1>5, <1>6

LEMMA NoDebts ==
    ASSUME NEW m \in Users, NEW o \in OpIDs
    PROVE  Debts(m, o) = {} <=> /\ ToldBy(m, o) = {} /\ InUpdates(m, o) = {}
                                /\ OnTheWay(m, o) = {} /\ AtClient(m, o) = {}
                                /\ ~Sending(m, o)
<1>1. /\ \A v \in ToldBy(m, o) : <<"tell", v>> \in Debts(m, o)
      /\ \A t \in InUpdates(m, o) : <<"update", t>> \in Debts(m, o)
      /\ \A t \in OnTheWay(m, o) : <<"reply", t>> \in Debts(m, o)
      /\ \A t \in AtClient(m, o) : <<"task", t>> \in Debts(m, o)
      /\ Sending(m, o) => <<"send", m>> \in Debts(m, o)
  BY DEF Debts
<1>2. ASSUME ToldBy(m, o) = {}, InUpdates(m, o) = {}, OnTheWay(m, o) = {},
             AtClient(m, o) = {}, ~Sending(m, o)
      PROVE  Debts(m, o) = {}
  BY <1>2 DEF Debts
<1>3. ASSUME Debts(m, o) = {}
      PROVE  /\ ToldBy(m, o) = {} /\ InUpdates(m, o) = {} /\ OnTheWay(m, o) = {}
             /\ AtClient(m, o) = {} /\ ~Sending(m, o)
  BY <1>1, <1>3
<1> QED
  BY <1>2, <1>3

\* While the records of collecting operations stay, moving debts is harmless.
LEMMA DebtsMove ==
    ASSUME AccountsInv, UNCHANGED <<collected, team>>,
           \A m \in Users, o \in OpIDs : DebtMoves(m, o)
    PROVE  \A m \in Users, o \in OpIDs : OwedOnce(m, o)'
<1> SUFFICES ASSUME NEW m \in Users, NEW o \in OpIDs PROVE OwedOnce(m, o)'
  OBVIOUS
<1>1. Missing(o)' = Missing(o)
  BY DEF Missing, Participants, Contributors
<1>2. OwedOnce(m, o) /\ DebtMoves(m, o)
  BY DEF AccountsInv
<1>3. \A d, e \in Debts(m, o)' : d = e
  BY <1>2 DEF OwedOnce, DebtMoves
<1>4. Debts(m, o)' # {} => Debts(m, o) # {}
  BY <1>2 DEF DebtMoves
<1> QED
  BY <1>1, <1>2, <1>3, <1>4 DEF OwedOnce

\* The same for invitations, while the records of preparing operations stay.
LEMMA InvitationsMove ==
    ASSUME AccountsInv, UNCHANGED prep, allOpIDs \subseteq allOpIDs', StorageKept,
           \A m \in Users, o \in OpIDs : InvitationMoves(m, o)
    PROVE  \A m \in Users, o \in OpIDs : InvitedOnce(m, o)'
<1> SUFFICES ASSUME NEW m \in Users, NEW o \in OpIDs PROVE InvitedOnce(m, o)'
  OBVIOUS
<1>1. InvitedOnce(m, o) /\ InvitationMoves(m, o) /\ Preparing(o)
  BY DEF AccountsInv
<1>2. \A d, e \in Invitations(m, o)' : d = e
  BY <1>1 DEF InvitedOnce, InvitationMoves
<1>3. Invitations(m, o)' # {} => Invitations(m, o) # {}
  BY <1>1 DEF InvitationMoves
<1>4. prep[o] # Absent /\ MayBeAdmitted(m, o) => MayBeAdmitted(m, o)'
  BY <1>1 DEF Preparing, StorageKept, InStorage, MayBeAdmitted, MembersOf
<1> QED
  BY <1>1, <1>2, <1>3, <1>4 DEF InvitedOnce

\* What the records say does not depend on anything else than storage.
LEMMA RecordsKept ==
    ASSUME AccountsInv, UNCHANGED <<prep, collected, team>>,
           allOpIDs \subseteq allOpIDs', StorageKept
    PROVE  \A o \in OpIDs : Preparing(o)' /\ Collecting(o)'
<1> SUFFICES ASSUME NEW o \in OpIDs PROVE Preparing(o)' /\ Collecting(o)'
  OBVIOUS
<1>1. Preparing(o) /\ Collecting(o)
  BY DEF AccountsInv
<1>2. Preparing(o)'
  BY <1>1 DEF Preparing, StorageKept, InStorage, MembersOf
<1>3. Collecting(o)'
  BY <1>1 DEF Collecting, StorageKept, InStorage, MembersOf, Participants, Contributors
<1> QED
  BY <1>2, <1>3

\* A fresh operation stays its thread's while nobody else gets its ID.
LEMMA FreshKept ==
    ASSUME AccountsInv, UNCHANGED <<prep, collected>>, allOpIDs \subseteq allOpIDs',
           \A m \in Users, o \in OpIDs : InvitationMoves(m, o),
           \A v \in Users : pc'[v] = "dec_prep" =>
              pc[v] = "dec_prep" /\ frame'[v].op = frame[v].op /\ frame[v].op \in OpIDs
    PROVE  \A v \in Users : FreshOperation(v)'
<1> SUFFICES ASSUME NEW v \in Users, pc'[v] = "dec_prep" PROVE FreshOperation(v)'
  BY DEF FreshOperation
<1> DEFINE o == frame[v].op
<1>1. FreshOperation(v) /\ pc[v] = "dec_prep" /\ o \in OpIDs /\ frame'[v].op = o
  BY DEF AccountsInv
<1>2. \A m \in Users : Invitations(m, o)' = {}
  BY <1>1 DEF FreshOperation, InvitationMoves
<1>3. \A w \in Users : pc'[w] = "dec_prep" /\ frame'[w].op = o => w = v
  BY <1>1 DEF FreshOperation
<1> QED
  BY <1>1, <1>2, <1>3 DEF FreshOperation

\* A step that only moves debts and invitations preserves the invariant.
LEMMA MovingStep ==
    ASSUME IInv, AccountsInv, UNCHANGED dmVars, StorageKept,
           \A m \in Users, o \in OpIDs : DebtMoves(m, o) /\ InvitationMoves(m, o),
           \A v \in Users : pc'[v] = "dec_prep" =>
              pc[v] = "dec_prep" /\ frame'[v].op = frame[v].op,
           \A v \in Users : OwnDuty(v)'
    PROVE  AccountsInv'
<1>1. \A m \in Users, o \in OpIDs : OwedOnce(m, o)' /\ InvitedOnce(m, o)'
  BY DebtsMove, InvitationsMove DEF dmVars
<1>2. \A o \in OpIDs : Preparing(o)' /\ Collecting(o)'
  BY RecordsKept DEF dmVars
<1>3. \A v \in Users : FreshOperation(v)'
  BY FreshKept DEF dmVars, IInv, LocalsOK
<1> QED
  BY <1>1, <1>2, <1>3 DEF AccountsInv, StorageKept

\* A thread that takes up no duty towards an operation: it stays where it is,
\* goes where it has none, or goes on with what it is doing.
TakesNoDuty(v) ==
    \/ pc'[v] = pc[v] /\ frame'[v] = frame[v]
    \/ pc'[v] \in {"idle", "mk_notify", "finish", "reply"}
    \/ /\ pc[v] = "snd_find" /\ pc'[v] = "snd_reg"
       /\ frame'[v].op = frame[v].op /\ frame'[v].part = frame[v].part
    \/ /\ pc[v] = "par_find" /\ pc'[v] = "par_reg"
       /\ frame'[v].op = frame[v].op /\ prep[frame[v].op] = Absent

\* Nothing is asked of v by messages that was not asked before.
GetsNoTask(v) ==
    /\ updates'[v].to_decrypt = updates[v].to_decrypt
    /\ updates'[v].on_lookup = updates[v].on_lookup
    /\ reply'[v].kind = "Updates" => reply'[v] = reply[v]
    /\ client'[v].tasks = client[v].tasks
    /\ client'[v].lookups = client[v].lookups

LEMMA QuietDebts ==
    ASSUME \A v \in Users : TakesNoDuty(v) /\ GetsNoTask(v)
    PROVE  \A m \in Users, o \in OpIDs : DebtMoves(m, o)
<1> SUFFICES ASSUME NEW m \in Users, NEW o \in OpIDs
             PROVE  Debts(m, o)' \subseteq Debts(m, o)
  BY DEF DebtMoves
<1>1. ToldBy(m, o)' \subseteq ToldBy(m, o)
  BY DEF ToldBy, TakesNoDuty
<1>2. InUpdates(m, o)' = InUpdates(m, o) /\ AtClient(m, o)' = AtClient(m, o)
  BY DEF InUpdates, AtClient, GetsNoTask
<1>3. OnTheWay(m, o)' \subseteq OnTheWay(m, o)
  BY DEF OnTheWay, GetsNoTask
<1>4. Sending(m, o)' => Sending(m, o)
  BY DEF Sending, TakesNoDuty
<1> QED
  BY <1>1, <1>2, <1>3, <1>4 DEF Debts

LEMMA QuietInvitations ==
    ASSUME \A v \in Users : TakesNoDuty(v) /\ GetsNoTask(v)
    PROVE  \A m \in Users, o \in OpIDs : InvitationMoves(m, o)
<1> SUFFICES ASSUME NEW m \in Users, NEW o \in OpIDs
             PROVE  Invitations(m, o)' \subseteq Invitations(m, o)
  BY DEF InvitationMoves
<1>1. LookupBy(m, o)' \subseteq LookupBy(m, o)
  BY DEF LookupBy, TakesNoDuty
<1>2. /\ updates'[m].on_lookup = updates[m].on_lookup
      /\ client'[m].lookups = client[m].lookups
  BY DEF GetsNoTask
<1>3. LookupOnTheWay(m, o)' => LookupOnTheWay(m, o)
  BY DEF LookupOnTheWay, GetsNoTask
<1>4. Asking(m, o)' => Asking(m, o)
  BY DEF Asking, TakesNoDuty
<1> QED
  BY <1>1, <1>2, <1>3, <1>4 DEF Invitations

\* Most steps do neither, and preserve the invariant.
LEMMA QuietStep ==
    ASSUME IInv, AccountsInv, UNCHANGED dmVars, StorageKept,
           \A v \in Users : TakesNoDuty(v) /\ GetsNoTask(v)
    PROVE  AccountsInv'
<1>1. ASSUME NEW v \in Users PROVE OwnDuty(v)'
  BY DEF TakesNoDuty, AccountsInv, OwnDuty, dmVars
<1>2. \A v \in Users : pc'[v] = "dec_prep" =>
          pc[v] = "dec_prep" /\ frame'[v].op = frame[v].op
  BY DEF TakesNoDuty
<1> QED
  BY <1>1, <1>2, QuietDebts, QuietInvitations, MovingStep

-----------------------------------------------------------------------------
\* The steps that take up no duty.

LEMMA StorageUnchanged ==
    ASSUME AccountsInv, UNCHANGED usersets PROVE StorageKept
BY DEF AccountsInv, StorageKept, DisjointMembers, InStorage

LEMMA NotifyMemberQuiet ==
    ASSUME IInv, AccountsInv, NEW u \in Users, NotifyMember(u) PROVE AccountsInv'
<1>1. PICK m \in Users, list \in {"owners", "reg_members"} :
          /\ Turn(u, list, m)
          /\ \/ RegisterOwner(m, frame[u].userset)
             \/ RegisterRegMember(m, frame[u].userset)
  BY DEF NotifyMember
<1>2. \A v \in Users : TakesNoDuty(v)
  BY <1>1 DEF NotifyMember, Turn, Goto, TakesNoDuty, IInv, TypeOK
<1>3. \A v \in Users : /\ updates'[v].to_decrypt = updates[v].to_decrypt
                       /\ updates'[v].on_lookup = updates[v].on_lookup
  <2>1. updates \in [Users -> UpdateResponse]
    BY DEF IInv, TypeOK, UMTypeOK
  <2>2. CASE RegisterOwner(m, frame[u].userset)
    BY <2>1, <2>2 DEF RegisterOwner, UpdateResponse
  <2>3. CASE RegisterRegMember(m, frame[u].userset)
    BY <2>1, <2>3 DEF RegisterRegMember, UpdateResponse
  <2> QED
    BY <1>1, <2>2, <2>3
<1>4. \A v \in Users : GetsNoTask(v)
  BY <1>1, <1>3 DEF GetsNoTask, NotifyMember, Turn
<1> QED
  BY <1>2, <1>4, QuietStep, StorageUnchanged DEF NotifyMember

\* Making a userset, asking for usersets and refusing.
LEMMA UserSetRequestsQuiet ==
    ASSUME MembersListedOnce, IInv, AccountsInv, NEW u \in Users,
           RejectUserSet(u) \/ StoreUserSet(u) \/ SendUserSets(u)
    PROVE  AccountsInv'
<1>1. \A v \in Users : TakesNoDuty(v)
  <2>1. /\ pc'[u] \in {"reply", "mk_notify"}
        /\ \A v \in Users \ {u} : pc'[v] = pc[v] /\ frame'[v] = frame[v]
    <3>1. CASE RejectUserSet(u)
      BY <3>1 DEF RejectUserSet, Respond, Goto, IInv, TypeOK
    <3>2. CASE StoreUserSet(u)
      BY <3>2 DEF StoreUserSet, Goto, Loop, IInv, TypeOK
    <3>3. CASE SendUserSets(u)
      BY <3>3 DEF SendUserSets, Respond, Goto, IInv, TypeOK
    <3> QED
      BY <3>1, <3>2, <3>3
  <2> QED
    BY <2>1 DEF TakesNoDuty
<1>2. \A v \in Users : GetsNoTask(v)
  <2>1. PICK r : r.kind # "Updates" /\ reply' = [reply EXCEPT ![u] = r]
    <3>1. CASE RejectUserSet(u)
      BY <3>1 DEF RejectUserSet, Respond, ErrorResponse
    <3>2. CASE StoreUserSet(u)
      BY <3>2 DEF StoreUserSet, MakeUserSetResponse
    <3>3. CASE SendUserSets(u)
      BY <3>3 DEF SendUserSets, Respond, GetUserSetsResponse
    <3> QED
      BY <3>1, <3>2, <3>3
  <2>2. UNCHANGED <<updates, client>>
    BY DEF RejectUserSet, StoreUserSet, SendUserSets
  <2> QED
    BY <2>1, <2>2 DEF GetsNoTask, IInv, TypeOK
<1>3. UNCHANGED dmVars
  BY DEF RejectUserSet, StoreUserSet, SendUserSets
<1>4. StorageKept
  <2>1. CASE StoreUserSet(u)
    <3>1. PICK p \in Plans, s \in UserSetIDs :
              /\ u \notin p.owners \cup p.reg_members
              /\ usersets[s] = Absent
              /\ usersets' = [usersets EXCEPT ![s] =
                     [owners |-> p.owners \cup {u}, reg_members |-> p.reg_members,
                      owners_threshold |-> p.owners_threshold,
                      reg_members_threshold |-> p.reg_members_threshold]]
      BY <2>1 DEF StoreUserSet
    <3>2. /\ usersets'[s].owners \cap usersets'[s].reg_members = {}
          /\ \A t \in UserSetIDs \ {s} : usersets'[t] = usersets[t]
      BY <3>1 DEF MembersListedOnce, IInv, TypeOK
    <3> QED
      BY <3>1, <3>2 DEF StorageKept, InStorage, AccountsInv, DisjointMembers
  <2>2. CASE UNCHANGED usersets
    BY <2>2, StorageUnchanged
  <2> QED
    BY <2>1, <2>2 DEF RejectUserSet, SendUserSets
<1> QED
  BY <1>1, <1>2, <1>3, <1>4, QuietStep

\* Finding an operation in the second map: an invited member finds it there
\* only when it is not being prepared any more.
LEMMA FindCollectedQuiet ==
    ASSUME IInv, AccountsInv, NEW u \in Users,
           ParticipateFindCollected(u) \/ SendPartFindCollected(u)
    PROVE  AccountsInv'
<1>1. PICK find \in {"par_find", "snd_find"}, found \in {"par_reg", "snd_reg"} :
          /\ find = "snd_find" <=> found = "snd_reg"
          /\ FindCollected(u, find, found)
  BY DEF ParticipateFindCollected, SendPartFindCollected
<1>2. frame[u].op \in OpIDs /\ frame[u] \in Frame
  BY <1>1 DEF FindCollected, IInv, TypeOK, LocalsOK
<1>3. collected[frame[u].op] # Absent => prep[frame[u].op] = Absent
  BY <1>2 DEF AccountsInv, Preparing
<1>4. ASSUME NEW v \in Users PROVE TakesNoDuty(v)
  BY <1>1, <1>2, <1>3 DEF FindCollected, Respond, Goto, TakesNoDuty, IInv, TypeOK, Frame
<1>5. \A v \in Users : GetsNoTask(v)
  BY <1>1 DEF FindCollected, Respond, ErrorResponse, GetsNoTask, IInv, TypeOK
<1> QED
  BY <1>1, <1>4, <1>5, QuietStep, StorageUnchanged DEF FindCollected

LEMMA RegisterTooLateQuiet ==
    ASSUME IInv, AccountsInv, NEW u \in Users, RegisterTooLate(u) PROVE AccountsInv'
<1>1. \A v \in Users : TakesNoDuty(v)
  BY DEF RegisterTooLate, Respond, Goto, TakesNoDuty, IInv, TypeOK
<1>2. \A v \in Users : GetsNoTask(v)
  BY DEF RegisterTooLate, Respond, GetsNoTask, ErrorResponse, ParticipateResponse,
         IInv, TypeOK
<1> QED
  BY <1>1, <1>2, QuietStep, StorageUnchanged DEF RegisterTooLate

LEMMA FinishOperationQuiet ==
    ASSUME IInv, AccountsInv, NEW u \in Users, FinishOperation(u) PROVE AccountsInv'
<1>1. \A v \in Users : TakesNoDuty(v)
  BY DEF FinishOperation, Goto, TakesNoDuty, IInv, TypeOK
<1>2. \A v \in Users : GetsNoTask(v)
  BY DEF FinishOperation, RegisterFinishedDecryption, GetsNoTask, IInv, TypeOK,
         UMTypeOK, UpdateResponse
<1> QED
  BY <1>1, <1>2, QuietStep, StorageUnchanged DEF FinishOperation

\* A lost response or a logout leaves the accounts alone, or settles them.
LEMMA DisconnectQuiet ==
    ASSUME IInv, AccountsInv, NEW u \in Users, LoseConnection(u) \/ LogOut(u)
    PROVE  AccountsInv'
<1>1. \A v \in Users : TakesNoDuty(v)
  BY DEF LoseConnection, LogOut, Goto, TakesNoDuty, IInv, TypeOK
<1>2. \A v \in Users : GetsNoTask(v)
  <2>1. CASE LoseConnection(u)
    BY <2>1 DEF LoseConnection, GetsNoTask, NoReply, IInv, TypeOK
  <2>2. CASE LogOut(u)
    BY <2>2 DEF LogOut, GetsNoTask, IInv, TypeOK, ClientState
  <2> QED
    BY <2>1, <2>2
<1>3. UNCHANGED dmVars /\ UNCHANGED usersets
  BY DEF LoseConnection, LogOut
<1> QED
  BY <1>1, <1>2, <1>3, QuietStep, StorageUnchanged

-----------------------------------------------------------------------------
\* Starting a decryption: the operation is fresh until it is prepared.

LEMMA InitiateDecryptionStarts ==
    ASSUME IInv, AccountsInv, NEW u \in Users, InitiateDecryption(u) PROVE AccountsInv'
<1>1. PICK o \in OpIDs :
          /\ NewOperation(o)
          /\ pc' = [pc EXCEPT ![u] = pc'[u]]
          /\ frame' = [frame EXCEPT ![u] = frame'[u]]
          /\ frame'[u].op = o
          /\ pc'[u] \in {"finish", "dec_prep"}
          /\ reply' = [reply EXCEPT ![u] = DecryptResponse(o)]
  <2>1. frame[u] \in Frame
    BY DEF IInv, TypeOK
  <2>2. PICK s \in client[u].knownOwned, o \in OpIDs :
            /\ NewOperation(o)
            /\ \/ /\ frame' = [frame EXCEPT ![u].op = o, ![u].userset = s,
                         ![u].opCollRecord = NewCollectedRecord(u, s, 0, 0)]
                  /\ Goto(u, "finish")
               \/ /\ frame' = [frame EXCEPT ![u].op = o, ![u].userset = s]
                  /\ Goto(u, "dec_prep")
            /\ reply' = [reply EXCEPT ![u] = DecryptResponse(o)]
    BY DEF InitiateDecryption
  <2>3. /\ pc' = [pc EXCEPT ![u] = pc'[u]]
        /\ pc'[u] \in {"finish", "dec_prep"}
    BY <2>2 DEF Goto, IInv, TypeOK
  <2>4. /\ frame' = [frame EXCEPT ![u] = frame'[u]]
        /\ frame'[u].op = o
    BY <2>1, <2>2 DEF IInv, TypeOK, Frame
  <2> QED
    BY <2>2, <2>3, <2>4
<1>2. /\ UNCHANGED <<prep, collected, team, updates, client>>
      /\ allOpIDs' = allOpIDs \cup {o} /\ o \notin allOpIDs
  BY <1>1 DEF InitiateDecryption, NewOperation
<1>3. StorageKept
  BY StorageUnchanged DEF InitiateDecryption
<1>4. /\ \A v \in Users \ {u} : pc'[v] = pc[v] /\ frame'[v] = frame[v]
      /\ \A v \in Users : reply'[v].kind = "Updates" => reply'[v] = reply[v]
  BY <1>1 DEF DecryptResponse, IInv, TypeOK
<1>5. ASSUME NEW m \in Users, NEW p \in OpIDs PROVE Debts(m, p)' \subseteq Debts(m, p)
  <2>1. ToldBy(m, p)' \subseteq ToldBy(m, p) /\ (Sending(m, p)' => Sending(m, p))
    BY <1>1, <1>4 DEF ToldBy, Sending
  <2>2. OnTheWay(m, p)' \subseteq OnTheWay(m, p)
    BY <1>4 DEF OnTheWay
  <2>3. InUpdates(m, p)' = InUpdates(m, p) /\ AtClient(m, p)' = AtClient(m, p)
    BY <1>2 DEF InUpdates, AtClient
  <2> QED
    BY <2>1, <2>2, <2>3 DEF Debts
<1>6. ASSUME NEW m \in Users, NEW p \in OpIDs
      PROVE  Invitations(m, p)' \subseteq Invitations(m, p)
  <2>1. LookupBy(m, p)' \subseteq LookupBy(m, p) /\ (Asking(m, p)' => Asking(m, p))
    BY <1>1, <1>4 DEF LookupBy, Asking
  <2>2. LookupOnTheWay(m, p)' => LookupOnTheWay(m, p)
    BY <1>4 DEF LookupOnTheWay
  <2> QED
    BY <1>2, <2>1, <2>2 DEF Invitations
<1>7. \A m \in Users, p \in OpIDs : OwedOnce(m, p)'
  BY <1>2, <1>5, DebtsMove DEF DebtMoves
<1>8. \A m \in Users, p \in OpIDs : InvitedOnce(m, p)'
  BY <1>2, <1>3, <1>6, InvitationsMove DEF InvitationMoves
<1>9. \A p \in OpIDs : Preparing(p)' /\ Collecting(p)'
  BY <1>2, <1>3, RecordsKept
<1>10. ASSUME NEW v \in Users PROVE FreshOperation(v)'
  <2>1. CASE v = u
    <3>1. prep[o] = Absent /\ collected[o] = Absent
      BY <1>2 DEF AccountsInv, Preparing, Collecting
    <3>2. \A m \in Users : Invitations(m, o)' = {}
      BY <1>2, <1>6 DEF AccountsInv, InvitedOnce
    <3>3. \A w \in Users : pc'[w] = "dec_prep" /\ frame'[w].op = o => w = u
      BY <1>2, <1>4 DEF AccountsInv, FreshOperation
    <3> QED
      BY <1>1, <1>2, <2>1, <3>1, <3>2, <3>3 DEF FreshOperation
  <2>2. CASE v # u /\ pc[v] = "dec_prep"
    <3>1. FreshOperation(v) /\ frame[v].op \in OpIDs /\ frame[v].op # o
      BY <1>2, <2>2 DEF AccountsInv, FreshOperation, IInv, LocalsOK
    <3> QED
      BY <1>1, <1>2, <1>4, <1>6, <2>2, <3>1 DEF FreshOperation
  <2> QED
    BY <1>4, <2>1, <2>2 DEF FreshOperation
<1>11. ASSUME NEW v \in Users PROVE OwnDuty(v)'
  BY <1>1, <1>2, <1>4 DEF AccountsInv, OwnDuty
<1> QED
  BY <1>3, <1>7, <1>8, <1>9, <1>10, <1>11 DEF AccountsInv, StorageKept

\* Preparing it invites the other members of the userset.
LEMMA PrepareDecryptionInvites ==
    ASSUME IInv, AccountsInv, NEW u \in Users, PrepareDecryption(u) PROVE AccountsInv'
<1>0. PICK o \in OpIDs, s \in UserSetIDs : o = frame[u].op /\ s = frame[u].userset
  BY DEF PrepareDecryption, IInv, LocalsOK
<1>1. usersets[s] \in UserSetInfo /\ InStorage(s)
  BY <1>0 DEF PrepareDecryption, IInv, TypeOK, LocalsOK, InStorage
<1>2. PICK ot \in Nat, rt \in Nat : PrepareOperation(o, u, s, ot, rt)
  BY <1>0, <1>1 DEF PrepareDecryption, UserSetInfo
<1>3. /\ o \in allOpIDs /\ prep[o] = Absent /\ collected[o] = Absent
      /\ \A m \in Users : Invitations(m, o) = {}
      /\ \A v \in Users : pc[v] = "dec_prep" /\ frame[v].op = o => v = u
  BY <1>0 DEF PrepareDecryption, IInv, LocalsOK, AccountsInv, FreshOperation
<1>4. prep' = [prep EXCEPT ![o] = NewPrepareRecord(u, s, ot, rt)]
  BY <1>2, <1>3 DEF PrepareOperation, Emplace
<1>5. /\ \A v \in Users \ {u} : pc'[v] = pc[v] /\ frame'[v] = frame[v]
      /\ pc'[u] \in {"reply", "dec_lookup"}
      /\ frame'[u] = [frame[u] EXCEPT !.todo =
             [owners |-> usersets[s].owners \ {u},
              reg_members |-> usersets[s].reg_members \ {u}]]
  BY <1>0 DEF PrepareDecryption, Goto, Loop, IInv, TypeOK
<1>6. frame'[u].op = o /\ frame'[u].todo.owners \cup frame'[u].todo.reg_members
                             = MembersOf(s) \ {u}
  <2>1. frame[u] \in Frame
    BY DEF IInv, TypeOK
  <2> QED
    BY <1>0, <1>5, <2>1 DEF Frame, MembersOf
<1>7. UNCHANGED <<collected, allOpIDs, team, updates, reply, client, usersets>>
  BY DEF PrepareDecryption, PrepareOperation
<1>8. StorageKept
  BY <1>7, StorageUnchanged
<1>9. ASSUME NEW m \in Users, NEW p \in OpIDs PROVE Debts(m, p)' \subseteq Debts(m, p)
  <2>1. ToldBy(m, p)' \subseteq ToldBy(m, p) /\ (Sending(m, p)' => Sending(m, p))
    BY <1>5 DEF ToldBy, Sending
  <2>2. /\ OnTheWay(m, p)' = OnTheWay(m, p)
        /\ InUpdates(m, p)' = InUpdates(m, p) /\ AtClient(m, p)' = AtClient(m, p)
    BY <1>7 DEF OnTheWay, InUpdates, AtClient
  <2> QED
    BY <2>1, <2>2 DEF Debts
<1>10. ASSUME NEW m \in Users, NEW p \in OpIDs
       PROVE  Invitations(m, p)' \subseteq
                Invitations(m, p) \cup
                (IF p = o /\ m \in MembersOf(s) \ {u} THEN {<<"lookup", u>>} ELSE {})
  <2>1. LookupBy(m, p)' \subseteq
          LookupBy(m, p) \cup (IF p = o /\ m \in MembersOf(s) \ {u} THEN {u} ELSE {})
    BY <1>5, <1>6 DEF LookupBy
  <2>2. Asking(m, p)' => Asking(m, p)
    BY <1>5 DEF Asking
  <2> QED
    BY <1>7, <2>1, <2>2 DEF Invitations, LookupOnTheWay
<1>11. \A m \in Users, p \in OpIDs : OwedOnce(m, p)'
  BY <1>7, <1>9, DebtsMove DEF DebtMoves
<1>12. ASSUME NEW m \in Users, NEW p \in OpIDs PROVE InvitedOnce(m, p)'
  <2>1. CASE p = o
    <3>1. Invitations(m, o)' \subseteq {<<"lookup", u>>}
      BY <1>3, <1>10, <2>1
    <3>2. Invitations(m, o)' # {} => m \in MembersOf(s) \ {u}
      BY <1>3, <1>10, <2>1
    <3>3. Invitations(m, o)' # {} => MayBeAdmitted(m, o)'
      BY <1>3, <1>4, <1>7, <3>2
         DEF MayBeAdmitted, MembersOf, NewPrepareRecord, IInv, TypeOK, DMTypeOK
    <3> QED
      BY <1>3, <1>7, <2>1, <3>1, <3>3 DEF InvitedOnce
  <2>2. CASE p # o
    BY <1>4, <1>7, <1>10, <2>2 DEF AccountsInv, InvitedOnce, MayBeAdmitted, MembersOf,
       IInv, TypeOK, DMTypeOK
  <2> QED
    BY <2>1, <2>2
<1>13. ASSUME NEW p \in OpIDs PROVE Preparing(p)'
  <2>1. CASE p = o
    BY <1>1, <1>3, <1>4, <1>7, <2>1, FS_EmptySet
       DEF Preparing, NewPrepareRecord, InStorage, IInv, TypeOK, DMTypeOK
  <2>2. CASE p # o
    BY <1>4, <1>7, <2>2 DEF AccountsInv, Preparing, InStorage, MembersOf,
       IInv, TypeOK, DMTypeOK
  <2> QED
    BY <2>1, <2>2
<1>14. ASSUME NEW p \in OpIDs PROVE Collecting(p)'
  BY <1>7 DEF AccountsInv, Collecting, InStorage, MembersOf, Participants, Contributors
<1>15. ASSUME NEW v \in Users PROVE FreshOperation(v)'
  <2> SUFFICES ASSUME pc'[v] = "dec_prep" PROVE FreshOperation(v)'
    BY DEF FreshOperation
  <2>1. v # u /\ pc[v] = "dec_prep" /\ frame'[v] = frame[v]
    BY <1>5
  <2>2. FreshOperation(v) /\ frame[v].op \in OpIDs /\ frame[v].op # o
    BY <1>3, <2>1 DEF AccountsInv, IInv, LocalsOK
  <2>3. prep'[frame[v].op] = Absent
    BY <1>4, <2>1, <2>2 DEF FreshOperation, IInv, TypeOK, DMTypeOK
  <2> QED
    BY <1>5, <1>7, <1>10, <2>1, <2>2, <2>3 DEF FreshOperation
<1>16. ASSUME NEW v \in Users PROVE OwnDuty(v)'
  <2>1. CASE v = u
    BY <1>1, <1>5, <2>1 DEF OwnDuty, AccountsInv, DisjointMembers, IInv, TypeOK, Frame
  <2>2. CASE v # u
    <3>1. pc'[v] = pc[v] /\ frame'[v] = frame[v] /\ OwnDuty(v)
      BY <1>5, <2>2 DEF AccountsInv
    <3>2. pc[v] = "par_reg" => frame[v].op \in OpIDs /\ frame[v].op # o
      \* nobody asks about an operation that is not prepared yet
      <4> SUFFICES ASSUME pc[v] = "par_reg" PROVE frame[v].op \in OpIDs /\ frame[v].op # o
        OBVIOUS
      <4>1. frame[v].op \in OpIDs
        BY DEF IInv, LocalsOK
      <4>2. Asking(v, frame[v].op)
        BY DEF Asking
      <4>3. Invitations(v, frame[v].op) # {}
        BY <4>2 DEF Invitations
      <4> QED
        BY <1>3, <4>1, <4>3
    <3> QED
      BY <1>4, <3>1, <3>2 DEF OwnDuty, IInv, TypeOK, DMTypeOK
  <2> QED
    BY <2>1, <2>2
<1> QED
  BY <1>8, <1>11, <1>12, <1>13, <1>14, <1>15, <1>16 DEF AccountsInv, StorageKept

-----------------------------------------------------------------------------
\* The steps that move invitations and debts.

\* What a turn of the loops over members leaves, and whom it takes off.
LEMMA TurnTakesOff ==
    ASSUME IInv, NEW u \in Users, OwnDuty(u), UNCHANGED prep, NEW m \in Users,
           NEW list \in {"owners", "reg_members"}, Turn(u, list, m),
           pc[u] \in {"dec_lookup", "par_tell"}
    PROVE  /\ \A v \in Users \ {u} : pc'[v] = pc[v] /\ frame'[v] = frame[v]
           /\ pc'[u] \in {pc[u], "reply"}
           /\ frame'[u].op = frame[u].op
           /\ m \in frame[u].todo.owners \cup frame[u].todo.reg_members
           /\ frame'[u].todo.owners \cup frame'[u].todo.reg_members \subseteq
                (frame[u].todo.owners \cup frame[u].todo.reg_members) \ {m}
           /\ OwnDuty(u)'
<1>1. frame[u] \in Frame /\ frame[u].todo \in MemberLists
  BY DEF IInv, TypeOK, Frame
<1>2. /\ \A v \in Users \ {u} : pc'[v] = pc[v] /\ frame'[v] = frame[v]
      /\ pc'[u] \in {pc[u], "reply"}
  BY DEF Turn, Goto, IInv, TypeOK
<1>3. /\ frame'[u].op = frame[u].op
      /\ frame'[u].todo = [frame[u].todo EXCEPT ![list] = @ \ {m}]
  BY <1>1 DEF Turn, IInv, TypeOK, Frame
<1>4. CASE list = "owners"
  BY <1>1, <1>2, <1>3, <1>4 DEF Turn, OwnDuty, MemberLists
<1>5. CASE list = "reg_members"
  BY <1>1, <1>2, <1>3, <1>5 DEF Turn, OwnDuty, MemberLists
<1> QED
  BY <1>4, <1>5

LEMMA LookupMemberMoves ==
    ASSUME IInv, AccountsInv, NEW u \in Users, LookupMember(u) PROVE AccountsInv'
<1>0. PICK o \in OpIDs : o = frame[u].op
  BY DEF LookupMember, IInv, LocalsOK
<1>1. PICK m \in Users, list \in {"owners", "reg_members"} :
          Turn(u, list, m) /\ RegisterLookup(m, o)
  BY <1>0 DEF LookupMember
<1>2. /\ UNCHANGED <<prep, collected, allOpIDs, team, reply, client, usersets>>
      /\ pc[u] = "dec_lookup"
  BY <1>1 DEF LookupMember, dmVars, Turn
<1>3. /\ \A v \in Users \ {u} : pc'[v] = pc[v] /\ frame'[v] = frame[v]
      /\ pc'[u] \in {"dec_lookup", "reply"}
      /\ frame'[u].op = o
      /\ m \in frame[u].todo.owners \cup frame[u].todo.reg_members
      /\ frame'[u].todo.owners \cup frame'[u].todo.reg_members \subseteq
            (frame[u].todo.owners \cup frame[u].todo.reg_members) \ {m}
      /\ OwnDuty(u)'
  BY <1>0, <1>1, <1>2, TurnTakesOff DEF AccountsInv
<1>4. /\ \A v \in Users : updates'[v].to_decrypt = updates[v].to_decrypt
      /\ \A v \in Users \ {m} : updates'[v].on_lookup = updates[v].on_lookup
      /\ updates'[m].on_lookup = updates[m].on_lookup \cup {o}
  <2>1. updates \in [Users -> UpdateResponse]
    BY DEF IInv, TypeOK, UMTypeOK
  <2> QED
    BY <1>1, <2>1 DEF RegisterLookup, UpdateResponse
<1>5. ASSUME NEW n \in Users, NEW p \in OpIDs PROVE DebtMoves(n, p)
  <2>1. ToldBy(n, p)' \subseteq ToldBy(n, p) /\ (Sending(n, p)' => Sending(n, p))
    BY <1>3 DEF ToldBy, Sending
  <2>2. /\ OnTheWay(n, p)' = OnTheWay(n, p) /\ AtClient(n, p)' = AtClient(n, p)
        /\ InUpdates(n, p)' = InUpdates(n, p)
    BY <1>2, <1>4 DEF OnTheWay, AtClient, InUpdates
  <2>3. Debts(n, p)' \subseteq Debts(n, p)
    BY <2>1, <2>2 DEF Debts
  <2> QED
    BY <2>3 DEF DebtMoves
<1>6. ASSUME NEW n \in Users, NEW p \in OpIDs PROVE InvitationMoves(n, p)
  <2>1. /\ LookupBy(n, p)' \subseteq LookupBy(n, p)
        /\ Asking(n, p)' => Asking(n, p)
        /\ LookupOnTheWay(n, p)' = LookupOnTheWay(n, p)
    BY <1>0, <1>2, <1>3 DEF LookupBy, Asking, LookupOnTheWay
  <2>2. CASE n = m /\ p = o
    <3>1. u \in LookupBy(m, o) /\ u \notin LookupBy(m, o)'
      BY <1>0, <1>2, <1>3 DEF LookupBy
    <3>2. <<"lookup", u>> \in Invitations(m, o)
      BY <3>1 DEF Invitations
    <3>4. LookupBy(m, o) = {u} /\ ~LookupOnTheWay(m, o) /\ ~Asking(m, o)
          /\ o \notin client[m].lookups
      BY <3>1, OneInvitation
    <3>5. LookupBy(m, o)' = {}
      BY <2>1, <2>2, <3>1, <3>4
    <3>6. Invitations(m, o)' \subseteq {<<"update", m>>}
      BY <1>2, <2>1, <2>2, <3>4, <3>5 DEF Invitations
    <3> QED
      BY <2>2, <3>2, <3>6 DEF InvitationMoves
  <2>3. CASE ~(n = m /\ p = o)
    <3>1. p \in updates'[n].on_lookup => p \in updates[n].on_lookup
      BY <1>4, <2>3
    <3>2. Invitations(n, p)' \subseteq Invitations(n, p)
      BY <1>2, <2>1, <3>1 DEF Invitations
    <3> QED
      BY <3>2 DEF InvitationMoves
  <2> QED
    BY <2>2, <2>3
<1>7. StorageKept
  BY <1>2, StorageUnchanged
<1>8. ASSUME NEW v \in Users PROVE OwnDuty(v)'
  BY <1>2, <1>3 DEF AccountsInv, OwnDuty
<1> QED
  BY <1>2, <1>3, <1>5, <1>6, <1>7, <1>8, MovingStep DEF dmVars

LEMMA ParticipateMoves ==
    ASSUME IInv, AccountsInv, NEW u \in Users, Participate(u) PROVE AccountsInv'
<1>1. PICK o \in client[u].lookups :
          /\ client' = [client EXCEPT ![u].lookups = @ \ {o}]
          /\ FindPrepared(u, o, [EmptyFrame EXCEPT !.op = o], "par_find", "par_reg")
  BY DEF Participate
<1>2. o \in OpIDs /\ client[u] \in ClientState
  BY DEF IInv, TypeOK, ClientState
<1>3. /\ UNCHANGED <<prep, collected, allOpIDs, team, updates, usersets, reply>>
      /\ pc[u] = "idle"
  BY DEF Participate, dmVars
<1>4. /\ \A v \in Users \ {u} : pc'[v] = pc[v] /\ frame'[v] = frame[v]
      /\ pc'[u] \in {"par_find", "par_reg"}
      /\ frame'[u].op = o
      /\ pc'[u] = "par_reg" => frame'[u].userset = prep[o].userset
  <2>1. CASE prep[o] # Absent
    <3>1. /\ frame' = [frame EXCEPT ![u] =
                 [[EmptyFrame EXCEPT !.op = o] EXCEPT !.userset = prep[o].userset]]
          /\ pc' = [pc EXCEPT ![u] = "par_reg"]
      BY <1>1, <2>1 DEF FindPrepared, Goto
    <3>2. frame'[u].op = o /\ frame'[u].userset = prep[o].userset
      BY <3>1 DEF EmptyFrame, IInv, TypeOK
    <3> QED
      BY <3>1, <3>2 DEF IInv, TypeOK
  <2>2. CASE prep[o] = Absent
    BY <1>1, <2>2 DEF FindPrepared, Goto, EmptyFrame, IInv, TypeOK
  <2> QED
    BY <2>1, <2>2
<1>5. /\ \A v \in Users : client'[v].tasks = client[v].tasks
      /\ \A v \in Users \ {u} : client'[v].lookups = client[v].lookups
      /\ client'[u].lookups = client[u].lookups \ {o}
  BY <1>1, <1>2 DEF IInv, TypeOK, ClientState
<1>6. ASSUME NEW n \in Users, NEW p \in OpIDs PROVE DebtMoves(n, p)
  <2>1. ToldBy(n, p)' \subseteq ToldBy(n, p) /\ (Sending(n, p)' => Sending(n, p))
    BY <1>4 DEF ToldBy, Sending
  <2>2. /\ OnTheWay(n, p)' = OnTheWay(n, p) /\ AtClient(n, p)' = AtClient(n, p)
        /\ InUpdates(n, p)' = InUpdates(n, p)
    BY <1>3, <1>5 DEF OnTheWay, AtClient, InUpdates
  <2>3. Debts(n, p)' \subseteq Debts(n, p)
    BY <2>1, <2>2 DEF Debts
  <2> QED
    BY <2>3 DEF DebtMoves
<1>7. ASSUME NEW n \in Users, NEW p \in OpIDs PROVE InvitationMoves(n, p)
  <2>1. /\ LookupBy(n, p)' \subseteq LookupBy(n, p)
        /\ LookupOnTheWay(n, p)' = LookupOnTheWay(n, p)
    BY <1>3, <1>4 DEF LookupBy, LookupOnTheWay
  <2>2. CASE n = u /\ p = o
    <3>1. <<"client", u>> \in Invitations(u, o)
      BY <1>1 DEF Invitations
    <3>3. LookupBy(u, o) = {} /\ ~LookupOnTheWay(u, o) /\ o \notin updates[u].on_lookup
      BY <1>1, <1>2, OneInvitation
    <3>4. Invitations(u, o)' \subseteq {<<"asking", u>>}
      BY <1>3, <1>5, <2>1, <2>2, <3>3 DEF Invitations
    <3> QED
      BY <2>2, <3>1, <3>4 DEF InvitationMoves
  <2>3. CASE ~(n = u /\ p = o)
    <3>1. Asking(n, p)' => Asking(n, p)
      BY <1>4, <2>3 DEF Asking
    <3>2. p \in client'[n].lookups => p \in client[n].lookups
      BY <1>5
    <3>3. Invitations(n, p)' \subseteq Invitations(n, p)
      BY <1>3, <2>1, <3>1, <3>2 DEF Invitations
    <3> QED
      BY <3>3 DEF InvitationMoves
  <2> QED
    BY <2>2, <2>3
<1>8. StorageKept
  BY <1>3, StorageUnchanged
<1>9. ASSUME NEW v \in Users PROVE OwnDuty(v)'
  BY <1>3, <1>4 DEF AccountsInv, OwnDuty
<1> QED
  BY <1>3, <1>4, <1>6, <1>7, <1>8, <1>9, MovingStep DEF dmVars

\* Fetching updates moves all that waits for u at once.
LEMMA SendUpdatesMoves ==
    ASSUME IInv, AccountsInv, NEW u \in Users, SendUpdates(u) PROVE AccountsInv'
<1>1. /\ UNCHANGED <<prep, collected, allOpIDs, team, client, usersets, frame>>
      /\ pc' = [pc EXCEPT ![u] = "reply"]
      /\ reply' = [reply EXCEPT ![u] = UpdatesReply(updates[u])]
      /\ updates' = [updates EXCEPT ![u] = NoUpdates]
  BY DEF SendUpdates, Respond, Goto, RetrieveUpdates, dmVars
<1>2. /\ reply'[u].kind = "Updates" /\ reply'[u].updates = updates[u]
      /\ updates'[u].on_lookup = {} /\ updates'[u].to_decrypt = {}
      /\ \A v \in Users \ {u} : reply'[v] = reply[v] /\ updates'[v] = updates[v]
      /\ \A v \in Users : pc'[v] \in {pc[v], "reply"}
  BY <1>1 DEF UpdatesReply, NoUpdates, IInv, TypeOK, UMTypeOK
<1>3. ASSUME NEW n \in Users, NEW p \in OpIDs PROVE DebtMoves(n, p)
  <2>1. /\ ToldBy(n, p)' \subseteq ToldBy(n, p) /\ (Sending(n, p)' => Sending(n, p))
        /\ AtClient(n, p)' = AtClient(n, p)
    BY <1>1, <1>2 DEF ToldBy, Sending, AtClient
  <2>2. CASE n # u \/ InUpdates(n, p) = {}
    <3>1. InUpdates(n, p)' \subseteq InUpdates(n, p) /\ OnTheWay(n, p)' \subseteq OnTheWay(n, p)
      BY <1>2, <2>2 DEF InUpdates, OnTheWay
    <3>2. Debts(n, p)' \subseteq Debts(n, p)
      BY <2>1, <3>1 DEF Debts
    <3> QED
      BY <3>2 DEF DebtMoves
  <2>3. ASSUME n = u, NEW t \in InUpdates(n, p) PROVE DebtMoves(n, p)
    <3>1. InUpdates(n, p) = {t} /\ ToldBy(n, p) = {} /\ AtClient(n, p) = {} /\ ~Sending(n, p)
      BY <2>3, OneDebt
    <3>2. InUpdates(n, p)' = {} /\ OnTheWay(n, p)' = {t}
      BY <1>2, <2>3, <3>1 DEF InUpdates, OnTheWay
    <3>3. ToldBy(n, p)' = {} /\ AtClient(n, p)' = {} /\ ~Sending(n, p)'
      BY <2>1, <3>1
    <3>4. Debts(n, p)' \subseteq {<<"reply", t>>}
      BY <3>2, <3>3 DEF Debts
    <3>5. <<"update", t>> \in Debts(n, p)
      BY <3>1 DEF Debts
    <3> QED
      BY <3>4, <3>5 DEF DebtMoves
  <2> QED
    BY <2>2, <2>3
<1>4. ASSUME NEW n \in Users, NEW p \in OpIDs PROVE InvitationMoves(n, p)
  <2>1. LookupBy(n, p)' \subseteq LookupBy(n, p) /\ (Asking(n, p)' => Asking(n, p))
    BY <1>1, <1>2 DEF LookupBy, Asking
  <2>2. CASE n # u \/ p \notin updates[n].on_lookup
    <3>1. /\ p \in updates'[n].on_lookup => p \in updates[n].on_lookup
          /\ LookupOnTheWay(n, p)' => LookupOnTheWay(n, p)
      BY <1>2, <2>2 DEF LookupOnTheWay
    <3>2. Invitations(n, p)' \subseteq Invitations(n, p)
      BY <1>1, <2>1, <3>1 DEF Invitations
    <3> QED
      BY <3>2 DEF InvitationMoves
  <2>3. CASE n = u /\ p \in updates[n].on_lookup
    <3>1. LookupBy(n, p) = {} /\ p \notin client[n].lookups /\ ~Asking(n, p)
      BY <2>3, OneInvitation
    <3>2. Invitations(n, p)' \subseteq {<<"reply", n>>} /\ Invitations(n, p) # {}
      BY <1>1, <1>2, <2>1, <2>3, <3>1 DEF Invitations
    <3> QED
      BY <3>2 DEF InvitationMoves
  <2> QED
    BY <2>2, <2>3
<1>5. ASSUME NEW v \in Users PROVE OwnDuty(v)'
  BY <1>1, <1>2 DEF AccountsInv, OwnDuty
<1>6. StorageKept
  BY <1>1, StorageUnchanged
<1> QED
  BY <1>1, <1>2, <1>3, <1>4, <1>5, <1>6, MovingStep DEF dmVars

\* Of an update a client keeps the lookups, and no more tasks than it was sent.
LEMMA ConsumeMoves ==
    ASSUME NEW c \in ClientState, NEW u \in Users, NEW r \in Reply
    PROVE  /\ Consume(c, u, r).lookups =
                c.lookups \cup (IF r.kind = "Updates" THEN r.updates.on_lookup ELSE {})
           /\ \A k \in Consume(c, u, r).tasks \ c.tasks :
                 /\ r.kind = "Updates"
                 /\ \E t \in r.updates.to_decrypt :
                       k = [op |-> t.op, shards_ids |-> t.shards_ids,
                            layer |-> LayerOf(c.pendingParticipances[t.op])]
<1>1. CASE r.kind = "Updates"
  BY <1>1 DEF Consume, ClientState
<1>2. CASE r.kind # "Updates"
  <2>1. /\ Consume(c, u, r).lookups = c.lookups
        /\ Consume(c, u, r).tasks = c.tasks
    BY <1>2 DEF Consume, ClientState
  <2> QED
    BY <1>2, <2>1
<1> QED
  BY <1>1, <1>2

\* The client takes what is sent to it, or does without.
LEMMA SendResponseMoves ==
    ASSUME IInv, AccountsInv, NEW u \in Users, SendResponse(u) PROVE AccountsInv'
<1> DEFINE c == client[u]
           r == reply[u]
           told == IF r.kind = "Updates" THEN r.updates.on_lookup ELSE {}
<1>1. /\ UNCHANGED <<prep, collected, allOpIDs, team, updates, usersets>>
      /\ pc[u] = "reply" /\ pc'[u] = "idle"
      /\ \A v \in Users \ {u} : /\ pc'[v] = pc[v] /\ frame'[v] = frame[v]
                                /\ reply'[v] = reply[v] /\ client'[v] = client[v]
      /\ reply'[u].kind # "Updates"
      /\ client'[u] = Consume(c, u, r)
  BY DEF SendResponse, Goto, NoReply, dmVars, IInv, TypeOK
<1>2. c \in ClientState /\ r \in Reply
  BY DEF IInv, TypeOK
<1>3. client'[u].lookups = c.lookups \cup told
  BY <1>1, <1>2, ConsumeMoves
<1>4. ASSUME NEW n \in Users, NEW p \in OpIDs PROVE DebtMoves(n, p)
  <2>1. /\ ToldBy(n, p)' \subseteq ToldBy(n, p) /\ (Sending(n, p)' => Sending(n, p))
        /\ InUpdates(n, p)' = InUpdates(n, p)
        /\ OnTheWay(n, p)' \subseteq OnTheWay(n, p)
    BY <1>1 DEF ToldBy, Sending, InUpdates, OnTheWay
  <2>2. CASE n # u
    <3>1. Debts(n, p)' \subseteq Debts(n, p)
      BY <1>1, <2>1, <2>2 DEF Debts, AtClient
    <3> QED
      BY <3>1 DEF DebtMoves
  <2>3. CASE n = u /\ OnTheWay(u, p) = {}
    <3>1. AtClient(u, p)' \subseteq AtClient(u, p)
      <4> SUFFICES ASSUME NEW k \in client'[u].tasks, k.op = p PROVE k \in c.tasks
        BY DEF AtClient
      <4>1. ASSUME k \notin c.tasks PROVE FALSE
        <5>1. PICK t \in r.updates.to_decrypt :
                  k = [op |-> t.op, shards_ids |-> t.shards_ids,
                       layer |-> LayerOf(c.pendingParticipances[t.op])]
          BY <1>1, <1>2, <4>1, ConsumeMoves
        <5>2. r.kind = "Updates" /\ t.op = p
          BY <1>1, <1>2, <4>1, <5>1, ConsumeMoves
        <5> QED
          BY <2>3, <5>1, <5>2 DEF OnTheWay
      <4> QED
        BY <4>1
    <3>2. Debts(n, p)' \subseteq Debts(n, p)
      BY <2>1, <2>3, <3>1 DEF Debts
    <3> QED
      BY <3>2 DEF DebtMoves
  <2>4. ASSUME n = u, NEW t \in OnTheWay(u, p) PROVE DebtMoves(n, p)
    <3> DEFINE k == [op |-> t.op, shards_ids |-> t.shards_ids,
                     layer |-> LayerOf(c.pendingParticipances[t.op])]
    <3>1. /\ OnTheWay(u, p) = {t} /\ ToldBy(u, p) = {} /\ InUpdates(u, p) = {}
          /\ AtClient(u, p) = {} /\ ~Sending(u, p)
      BY <2>4, OneDebt
    <3>2. \A l \in AtClient(u, p)' : l = k
      <4> SUFFICES ASSUME NEW l \in client'[u].tasks, l.op = p PROVE l = k
        BY DEF AtClient
      <4>1. l \notin c.tasks
        BY <3>1 DEF AtClient
      <4>2. PICK x \in r.updates.to_decrypt :
                l = [op |-> x.op, shards_ids |-> x.shards_ids,
                     layer |-> LayerOf(c.pendingParticipances[x.op])]
        BY <1>1, <1>2, <4>1, ConsumeMoves
      <4>3. r.kind = "Updates" /\ x.op = p
        BY <1>1, <1>2, <4>1, <4>2, ConsumeMoves
      <4>4. x = t
        BY <3>1, <4>3 DEF OnTheWay
      <4> QED
        BY <4>2, <4>4
    <3>3. OnTheWay(u, p)' = {}
      BY <1>1 DEF OnTheWay
    <3> HIDE DEF k
    <3>4. PICK l : l = k
      OBVIOUS
    <3>5. Debts(u, p)' \subseteq {<<"task", l>>}
      <4>1. \A x \in AtClient(u, p)' : x = l
        BY <3>2, <3>4
      <4> QED
        BY <2>1, <2>4, <3>1, <3>3, <4>1 DEF Debts
    <3>6. <<"reply", t>> \in Debts(u, p)
      BY <2>4 DEF Debts
    <3> QED
      BY <2>4, <3>5, <3>6 DEF DebtMoves
  <2> QED
    BY <2>2, <2>3, <2>4
<1>5. ASSUME NEW n \in Users, NEW p \in OpIDs PROVE InvitationMoves(n, p)
  <2>1. /\ LookupBy(n, p)' \subseteq LookupBy(n, p) /\ (Asking(n, p)' => Asking(n, p))
        /\ LookupOnTheWay(n, p)' => LookupOnTheWay(n, p)
    BY <1>1 DEF LookupBy, Asking, LookupOnTheWay
  <2>2. CASE n # u \/ ~LookupOnTheWay(n, p)
    <3>1. p \in client'[n].lookups => p \in client[n].lookups
      BY <1>1, <1>3, <2>2 DEF LookupOnTheWay
    <3>2. Invitations(n, p)' \subseteq Invitations(n, p)
      BY <1>1, <2>1, <3>1 DEF Invitations
    <3> QED
      BY <3>2 DEF InvitationMoves
  <2>3. CASE n = u /\ LookupOnTheWay(n, p)
    <3>1. LookupBy(n, p) = {} /\ p \notin updates[n].on_lookup /\ ~Asking(n, p)
      BY <2>3, OneInvitation
    <3>2. ~LookupOnTheWay(n, p)'
      BY <1>1, <2>3 DEF LookupOnTheWay
    <3>3. Invitations(n, p)' \subseteq {<<"client", n>>} /\ Invitations(n, p) # {}
      BY <1>1, <2>1, <2>3, <3>1, <3>2 DEF Invitations
    <3> QED
      BY <3>3 DEF InvitationMoves
  <2> QED
    BY <2>2, <2>3
<1>6. ASSUME NEW v \in Users PROVE OwnDuty(v)'
  BY <1>1 DEF AccountsInv, OwnDuty
<1>7. StorageKept
  BY <1>1, StorageUnchanged
<1> QED
  BY <1>1, <1>4, <1>5, <1>6, <1>7, MovingStep DEF dmVars

\* A client that sends its part has one task less.
LEMMA SendPartMoves ==
    ASSUME IInv, AccountsInv, NEW u \in Users, SendPart(u) PROVE AccountsInv'
<1>1. PICK t \in client[u].tasks :
          LET part == [by |-> u, layer |-> t.layer, ids |-> t.shards_ids] IN
          /\ client' = [client EXCEPT ![u].tasks = @ \ {t}]
          /\ FindPrepared(u, t.op, [EmptyFrame EXCEPT !.op = t.op, !.part = part],
                          "snd_find", "snd_reg")
  BY DEF SendPart
<1>2. t.op \in OpIDs /\ client[u] \in ClientState
  BY DEF IInv, TypeOK, ClientState, Task
<1>3. /\ UNCHANGED <<prep, collected, allOpIDs, team, updates, usersets, reply>>
      /\ pc[u] = "idle"
  BY DEF SendPart, dmVars
<1>4. /\ \A v \in Users \ {u} : pc'[v] = pc[v] /\ frame'[v] = frame[v]
      /\ pc'[u] \in {"snd_find", "snd_reg"}
      /\ frame'[u].op = t.op /\ frame'[u].part.by = u
  <2> DEFINE fr == [EmptyFrame EXCEPT !.op = t.op,
                        !.part = [by |-> u, layer |-> t.layer, ids |-> t.shards_ids]]
  <2>1. \A s : /\ fr.op = t.op /\ fr.part.by = u
               /\ [fr EXCEPT !.userset = s].op = t.op
               /\ [fr EXCEPT !.userset = s].part.by = u
    BY DEF EmptyFrame
  <2>2. FindPrepared(u, t.op, fr, "snd_find", "snd_reg")
    BY <1>1
  <2> HIDE DEF fr
  <2>3. CASE prep[t.op] # Absent
    <3>1. /\ frame' = [frame EXCEPT ![u] = [fr EXCEPT !.userset = prep[t.op].userset]]
          /\ pc' = [pc EXCEPT ![u] = "snd_reg"]
      BY <2>2, <2>3 DEF FindPrepared, Goto
    <3> QED
      BY <2>1, <3>1 DEF IInv, TypeOK
  <2>4. CASE prep[t.op] = Absent
    <3>1. /\ frame' = [frame EXCEPT ![u] = fr]
          /\ pc' = [pc EXCEPT ![u] = "snd_find"]
      BY <2>2, <2>4 DEF FindPrepared, Goto
    <3> QED
      BY <2>1, <3>1 DEF IInv, TypeOK
  <2> QED
    BY <2>3, <2>4
<1>5. /\ \A v \in Users : client'[v].lookups = client[v].lookups
      /\ \A v \in Users \ {u} : client'[v].tasks = client[v].tasks
      /\ client'[u].tasks = client[u].tasks \ {t}
  BY <1>1, <1>2 DEF IInv, TypeOK, ClientState
<1>6. ASSUME NEW n \in Users, NEW p \in OpIDs PROVE DebtMoves(n, p)
  <2>1. /\ ToldBy(n, p)' \subseteq ToldBy(n, p)
        /\ InUpdates(n, p)' = InUpdates(n, p) /\ OnTheWay(n, p)' = OnTheWay(n, p)
        /\ AtClient(n, p)' \subseteq AtClient(n, p)
    BY <1>3, <1>4, <1>5 DEF ToldBy, InUpdates, OnTheWay, AtClient
  <2>2. CASE n = u /\ p = t.op
    <3>1. t \in AtClient(n, p)
      BY <2>2 DEF AtClient
    <3>2. /\ AtClient(n, p) = {t} /\ ToldBy(n, p) = {} /\ InUpdates(n, p) = {}
          /\ OnTheWay(n, p) = {}
      BY <3>1, OneDebt
    <3>3. t \notin AtClient(n, p)'
      BY <1>5, <2>2 DEF AtClient
    <3>4. /\ AtClient(n, p)' = {} /\ ToldBy(n, p)' = {} /\ InUpdates(n, p)' = {}
          /\ OnTheWay(n, p)' = {}
      BY <2>1, <3>2, <3>3
    <3>5. Debts(n, p)' \subseteq {<<"send", n>>}
      BY <3>4 DEF Debts
    <3>6. <<"task", t>> \in Debts(n, p)
      BY <3>1 DEF Debts
    <3> QED
      BY <3>5, <3>6 DEF DebtMoves
  <2>3. CASE ~(n = u /\ p = t.op)
    <3>1. Sending(n, p)' => Sending(n, p)
      BY <1>4, <2>3 DEF Sending
    <3>2. Debts(n, p)' \subseteq Debts(n, p)
      BY <2>1, <3>1 DEF Debts
    <3> QED
      BY <3>2 DEF DebtMoves
  <2> QED
    BY <2>2, <2>3
<1>7. ASSUME NEW n \in Users, NEW p \in OpIDs PROVE InvitationMoves(n, p)
  <2>1. LookupBy(n, p)' \subseteq LookupBy(n, p) /\ (Asking(n, p)' => Asking(n, p))
    BY <1>4 DEF LookupBy, Asking
  <2>2. Invitations(n, p)' \subseteq Invitations(n, p)
    BY <1>3, <1>5, <2>1 DEF Invitations, LookupOnTheWay
  <2> QED
    BY <2>2 DEF InvitationMoves
<1>8. ASSUME NEW v \in Users PROVE OwnDuty(v)'
  BY <1>3, <1>4 DEF AccountsInv, OwnDuty
<1>9. StorageKept
  BY <1>3, StorageUnchanged
<1> QED
  BY <1>3, <1>4, <1>6, <1>7, <1>8, <1>9, MovingStep DEF dmVars

\* Telling a participant what to compute.
LEMMA TellParticipantMoves ==
    ASSUME IInv, AccountsInv, NEW u \in Users, TellParticipant(u) PROVE AccountsInv'
<1>0. PICK o \in OpIDs : o = frame[u].op
  BY DEF TellParticipant, IInv, LocalsOK
<1>0a. PICK m \in Users, list \in {"owners", "reg_members"} :
          Turn(u, list, m) /\ \E ids : RegisterDecryptionParticipating(m, o, ids)
  BY <1>0 DEF TellParticipant
<1>1. PICK ids : Turn(u, list, m) /\ RegisterDecryptionParticipating(m, o, ids)
  BY <1>0a
<1>2. /\ UNCHANGED <<prep, collected, allOpIDs, team, reply, client, usersets>>
      /\ pc[u] = "par_tell"
  BY <1>1 DEF TellParticipant, dmVars, Turn
<1>3. /\ \A v \in Users \ {u} : pc'[v] = pc[v] /\ frame'[v] = frame[v]
      /\ pc'[u] \in {"par_tell", "reply"}
      /\ frame'[u].op = o
      /\ m \in frame[u].todo.owners \cup frame[u].todo.reg_members
      /\ frame'[u].todo.owners \cup frame'[u].todo.reg_members \subseteq
            (frame[u].todo.owners \cup frame[u].todo.reg_members) \ {m}
      /\ OwnDuty(u)'
  BY <1>0, <1>1, <1>2, TurnTakesOff DEF AccountsInv
<1> DEFINE task == [op |-> o, shards_ids |-> ids]
<1>4. /\ \A v \in Users : updates'[v].on_lookup = updates[v].on_lookup
      /\ \A v \in Users \ {m} : updates'[v].to_decrypt = updates[v].to_decrypt
      /\ updates'[m].to_decrypt = updates[m].to_decrypt \cup {task}
  <2>1. updates \in [Users -> UpdateResponse]
    BY DEF IInv, TypeOK, UMTypeOK
  <2> QED
    BY <1>1, <2>1 DEF RegisterDecryptionParticipating, UpdateResponse
<1>5. task.op = o
  OBVIOUS
<1> HIDE DEF task
<1>6. ASSUME NEW n \in Users, NEW p \in OpIDs PROVE DebtMoves(n, p)
  <2>1. /\ ToldBy(n, p)' \subseteq ToldBy(n, p)
        /\ OnTheWay(n, p)' = OnTheWay(n, p) /\ AtClient(n, p)' = AtClient(n, p)
        /\ Sending(n, p)' => Sending(n, p)
    BY <1>0, <1>2, <1>3 DEF ToldBy, OnTheWay, AtClient, Sending
  <2>2. CASE n = m /\ p = o
    <3>1. u \in ToldBy(n, p) /\ u \notin ToldBy(n, p)'
      BY <1>0, <1>2, <1>3, <2>2 DEF ToldBy
    <3>2. /\ ToldBy(n, p) = {u} /\ InUpdates(n, p) = {} /\ OnTheWay(n, p) = {}
          /\ AtClient(n, p) = {} /\ ~Sending(n, p)
      BY <3>1, OneDebt
    <3>3. /\ ToldBy(n, p)' = {} /\ OnTheWay(n, p)' = {}
          /\ AtClient(n, p)' = {} /\ ~Sending(n, p)'
      BY <2>1, <3>1, <3>2
    <3>4. InUpdates(n, p)' \subseteq {task}
      BY <1>4, <2>2, <3>2 DEF InUpdates
    <3>5. Debts(n, p)' \subseteq {<<"update", task>>}
      BY <3>3, <3>4 DEF Debts
    <3>6. <<"tell", u>> \in Debts(n, p)
      BY <3>1 DEF Debts
    <3> QED
      BY <3>5, <3>6 DEF DebtMoves
  <2>3. CASE ~(n = m /\ p = o)
    <3>1. InUpdates(n, p)' \subseteq InUpdates(n, p)
      BY <1>4, <1>5, <2>3 DEF InUpdates
    <3>2. Debts(n, p)' \subseteq Debts(n, p)
      BY <2>1, <3>1 DEF Debts
    <3> QED
      BY <3>2 DEF DebtMoves
  <2> QED
    BY <2>2, <2>3
<1>7. ASSUME NEW n \in Users, NEW p \in OpIDs PROVE InvitationMoves(n, p)
  <2>1. LookupBy(n, p)' \subseteq LookupBy(n, p) /\ (Asking(n, p)' => Asking(n, p))
    BY <1>2, <1>3 DEF LookupBy, Asking
  <2>2. Invitations(n, p)' \subseteq Invitations(n, p)
    BY <1>2, <1>4, <2>1 DEF Invitations, LookupOnTheWay
  <2> QED
    BY <2>2 DEF InvitationMoves
<1>8. ASSUME NEW v \in Users PROVE OwnDuty(v)'
  BY <1>2, <1>3 DEF AccountsInv, OwnDuty
<1>9. StorageKept
  BY <1>2, StorageUnchanged
<1> QED
  BY <1>2, <1>3, <1>6, <1>7, <1>8, <1>9, MovingStep DEF dmVars

-----------------------------------------------------------------------------
\* register_participant and register_part.

\* A member that is needed takes a slot of its own, and fills no more than
\* there are.
LEMMA AdmitOne ==
    ASSUME NEW r \in PrepareRecord, NEW u \in Users, NEW isOwner \in BOOLEAN,
           u \notin r.owners_found \cup r.reg_members_found,
           r.owners_found \cap r.reg_members_found = {},
           Cardinality(r.owners_found) <= r.required_owners,
           Cardinality(r.reg_members_found) <= r.required_reg_members,
           Requirement(r, isOwner) # "NotRequired"
    PROVE  LET w == WithParticipant(r, u, Requirement(r, isOwner)) IN
           /\ w \in PrepareRecord
           /\ w.requester = r.requester /\ w.userset = r.userset
           /\ w.required_owners = r.required_owners
           /\ w.required_reg_members = r.required_reg_members
           /\ w.owners_found \subseteq r.owners_found \cup (IF isOwner THEN {u} ELSE {})
           /\ w.reg_members_found \subseteq r.reg_members_found \cup {u}
           /\ u \in w.owners_found \cup w.reg_members_found
           /\ w.owners_found \cap w.reg_members_found = {}
           /\ Cardinality(w.owners_found) <= w.required_owners
           /\ Cardinality(w.reg_members_found) <= w.required_reg_members
<1> DEFINE q == Requirement(r, isOwner)
           w == WithParticipant(r, u, q)
<1>1. /\ IsFiniteSet(r.owners_found) /\ IsFiniteSet(r.reg_members_found)
      /\ Cardinality(r.owners_found) \in Nat /\ Cardinality(r.reg_members_found) \in Nat
      /\ r.required_owners \in Nat /\ r.required_reg_members \in Nat
  BY FiniteUsers, FS_Subset, FS_CardinalityType DEF PrepareRecord
<1>2. /\ Cardinality(r.owners_found \cup {u}) = Cardinality(r.owners_found) + 1
      /\ Cardinality(r.reg_members_found \cup {u}) = Cardinality(r.reg_members_found) + 1
  BY <1>1, FS_AddElement
<1>3. CASE q = "OwnerPart"
  <2>1. isOwner /\ Cardinality(r.owners_found) < r.required_owners
    BY <1>3 DEF Requirement
  <2>2. w = [r EXCEPT !.owners_found = @ \cup {u}]
    BY <1>3 DEF WithParticipant
  <2>3. /\ w.owners_found = r.owners_found \cup {u}
        /\ w.reg_members_found = r.reg_members_found
        /\ w.requester = r.requester /\ w.userset = r.userset
        /\ w.required_owners = r.required_owners
        /\ w.required_reg_members = r.required_reg_members
    BY <2>2 DEF PrepareRecord
  <2>4. w \in PrepareRecord
    BY WithParticipantTypes
  <2> HIDE DEF w, q
  <2>5. Cardinality(w.owners_found) <= w.required_owners
    BY <1>1, <1>2, <2>1, <2>3
  <2> QED
    BY <2>1, <2>3, <2>4, <2>5 DEF w, q
<1>4. CASE q = "RegPart"
  <2>1. Cardinality(r.reg_members_found) < r.required_reg_members
    BY <1>4 DEF Requirement
  <2>2. w = [r EXCEPT !.reg_members_found = @ \cup {u}]
    BY <1>4 DEF WithParticipant
  <2>3. /\ w.owners_found = r.owners_found
        /\ w.reg_members_found = r.reg_members_found \cup {u}
        /\ w.requester = r.requester /\ w.userset = r.userset
        /\ w.required_owners = r.required_owners
        /\ w.required_reg_members = r.required_reg_members
    BY <2>2 DEF PrepareRecord
  <2>4. w \in PrepareRecord
    BY WithParticipantTypes
  <2> HIDE DEF w, q
  <2>5. Cardinality(w.reg_members_found) <= w.required_reg_members
    BY <1>1, <1>2, <2>1, <2>3
  <2> QED
    BY <2>3, <2>4, <2>5 DEF w, q
<1> QED
  BY <1>3, <1>4, RequirementTypes DEF PartRequirement

\* What registering a participant finds: one that was invited, once.
LEMMA ParticipantIsInvited ==
    ASSUME IInv, AccountsInv, NEW u \in Users, NEW o \in OpIDs, RegisterParticipant(u),
           o = frame[u].op
    PROVE  /\ MayBeAdmitted(u, o)
           /\ frame[u].userset = prep[o].userset
           /\ UserOwns(u, frame[u].userset) <=> u \in usersets[prep[o].userset].owners
           /\ \A d \in Invitations(u, o) : d = <<"asking", u>>
           /\ prep[o] \in PrepareRecord /\ prep[o] # Absent
<1>1. pc[u] = "par_reg" /\ prep[o] # Absent
  BY DEF RegisterParticipant
<1>2. <<"asking", u>> \in Invitations(u, o)
  BY <1>1 DEF Invitations, Asking
<1>3. InvitedOnce(u, o) /\ Preparing(o) /\ OwnDuty(u)
  BY DEF AccountsInv
<1>4. MayBeAdmitted(u, o) /\ \A d \in Invitations(u, o) : d = <<"asking", u>>
  BY <1>1, <1>2, <1>3 DEF InvitedOnce
<1>5. prep[o] \in PrepareRecord
  BY <1>1 DEF IInv, TypeOK, DMTypeOK
<1>6. frame[u].userset = prep[o].userset /\ usersets[prep[o].userset] # Absent
  BY <1>1, <1>3 DEF OwnDuty, Preparing, InStorage
<1> QED
  BY <1>1, <1>4, <1>5, <1>6 DEF UserOwns

\* One more participant, or a member that is not needed.
LEMMA RegisterParticipantAdmits ==
    ASSUME IInv, AccountsInv, NEW u \in Users, RegisterParticipant(u)
    PROVE  AccountsInv'
<1>1. PICK o \in OpIDs : o = frame[u].op
  BY DEF RegisterParticipant, IInv, LocalsOK
<1> DEFINE isOwner == UserOwns(u, frame[u].userset)
           q == Requirement(prep[o], isOwner)
           w == WithParticipant(prep[o], u, q)
<1>2. PICK r : r = w
  OBVIOUS
<1>3. /\ MayBeAdmitted(u, o)
      /\ isOwner <=> u \in usersets[prep[o].userset].owners
      /\ \A d \in Invitations(u, o) : d = <<"asking", u>>
      /\ prep[o] \in PrepareRecord /\ prep[o] # Absent
      /\ Preparing(o)
  BY <1>1, ParticipantIsInvited DEF AccountsInv
<1>4. /\ UNCHANGED <<updates, usersets, client, allOpIDs>>
      /\ pc[u] = "par_reg" /\ pc'[u] \in {"reply", "par_tell"}
      /\ \A v \in Users \ {u} : pc'[v] = pc[v] /\ reply'[v] = reply[v]
      /\ reply'[u].kind # "Updates"
      /\ \A v \in Users \ {u} : frame'[v] = frame[v]
  BY DEF RegisterParticipant, AddParticipant, AddLastParticipant, Goto, dmVars,
         ParticipateResponse, IInv, TypeOK
<1>5. StorageKept
  BY <1>4, StorageUnchanged
<1>6. q # "NotRequired" =>
        /\ r \in PrepareRecord /\ r # Absent
        /\ r.requester = prep[o].requester /\ r.userset = prep[o].userset
        /\ r.required_owners = prep[o].required_owners
        /\ r.required_reg_members = prep[o].required_reg_members
        /\ r.owners_found \subseteq prep[o].owners_found \cup (IF isOwner THEN {u} ELSE {})
        /\ r.reg_members_found \subseteq prep[o].reg_members_found \cup {u}
        /\ r.owners_found \cap r.reg_members_found = {}
        /\ Cardinality(r.owners_found) <= r.required_owners
        /\ Cardinality(r.reg_members_found) <= r.required_reg_members
  <2> SUFFICES ASSUME q # "NotRequired"
               PROVE  r \in PrepareRecord /\ r # Absent
                      /\ r.requester = prep[o].requester /\ r.userset = prep[o].userset
                      /\ r.required_owners = prep[o].required_owners
                      /\ r.required_reg_members = prep[o].required_reg_members
                      /\ r.owners_found \subseteq
                           prep[o].owners_found \cup (IF isOwner THEN {u} ELSE {})
                      /\ r.reg_members_found \subseteq prep[o].reg_members_found \cup {u}
                      /\ r.owners_found \cap r.reg_members_found = {}
                      /\ Cardinality(r.owners_found) <= r.required_owners
                      /\ Cardinality(r.reg_members_found) <= r.required_reg_members
    OBVIOUS
  <2>1. isOwner \in BOOLEAN
    BY DEF UserOwns
  <2>2. /\ u \notin prep[o].owners_found \cup prep[o].reg_members_found
        /\ prep[o].owners_found \cap prep[o].reg_members_found = {}
        /\ Cardinality(prep[o].owners_found) <= prep[o].required_owners
        /\ Cardinality(prep[o].reg_members_found) <= prep[o].required_reg_members
    BY <1>3 DEF MayBeAdmitted, Preparing
  <2> HIDE DEF isOwner
  <2> QED
    BY <1>2, <1>3, <2>1, <2>2, AdmitOne, AbsentAssumption
<1>7. r # Absent /\ q # "NotRequired" =>
        /\ r.owners_found \subseteq usersets[r.userset].owners
        /\ r.reg_members_found \subseteq MembersOf(r.userset)
        /\ r.requester \notin r.owners_found \cup r.reg_members_found
  BY <1>3, <1>6 DEF Preparing, MayBeAdmitted, MembersOf
<1> HIDE DEF w
<1>8. ASSUME NEW n \in Users, NEW p \in OpIDs
      PROVE  Invitations(n, p)' \subseteq Invitations(n, p)
  <2>1. LookupBy(n, p)' \subseteq LookupBy(n, p) /\ (Asking(n, p)' => Asking(n, p))
    BY <1>4 DEF LookupBy, Asking
  <2> QED
    BY <1>4, <2>1 DEF Invitations, LookupOnTheWay
<1>9. Invitations(u, o)' = {}
  <2>1. ~Asking(u, o)'
    BY <1>4 DEF Asking
  <2>2. <<"asking", u>> \notin Invitations(u, o)'
    BY <2>1 DEF Invitations
  <2> QED
    BY <1>3, <1>8, <2>2
<1>10. ASSUME NEW v \in Users, pc'[v] = "dec_prep"
       PROVE  /\ pc[v] = "dec_prep" /\ frame'[v] = frame[v]
              /\ frame[v].op \in OpIDs /\ frame[v].op # o
              /\ FreshOperation(v)
  BY <1>3, <1>4, <1>10 DEF AccountsInv, FreshOperation, IInv, LocalsOK
<1>11. CASE q = "NotRequired" /\ UNCHANGED <<dmVars, frame>> /\ pc'[u] = "reply"
  <2>1. ASSUME NEW n \in Users, NEW p \in OpIDs PROVE Debts(n, p)' \subseteq Debts(n, p)
    BY <1>4, <1>11 DEF Debts, ToldBy, InUpdates, OnTheWay, AtClient, Sending
  <2>2. \A n \in Users, p \in OpIDs : DebtMoves(n, p) /\ InvitationMoves(n, p)
    BY <1>8, <2>1 DEF DebtMoves, InvitationMoves
  <2>3. ASSUME NEW v \in Users PROVE OwnDuty(v)'
    BY <1>4, <1>11 DEF AccountsInv, OwnDuty, dmVars
  <2> QED
    BY <1>5, <1>10, <1>11, <2>2, <2>3, MovingStep
<1>12. CASE AddParticipant(o, u, isOwner) /\ UNCHANGED frame /\ pc'[u] = "reply"
  <2>1. /\ q # "NotRequired" /\ prep' = [prep EXCEPT ![o] = r]
        /\ UNCHANGED <<collected, team>>
    BY <1>2, <1>12 DEF AddParticipant, w
  <2>2. prep'[o] = r /\ \A p \in OpIDs \ {o} : prep'[p] = prep[p]
    BY <2>1 DEF IInv, TypeOK, DMTypeOK
  <2>3. ASSUME NEW n \in Users, NEW p \in OpIDs PROVE Debts(n, p)' \subseteq Debts(n, p)
    BY <1>4, <1>12 DEF Debts, ToldBy, InUpdates, OnTheWay, AtClient, Sending
  <2>4. \A n \in Users, p \in OpIDs : OwedOnce(n, p)'
    BY <2>1, <2>3, DebtsMove DEF DebtMoves
  <2>5. ASSUME NEW n \in Users, NEW p \in OpIDs PROVE InvitedOnce(n, p)'
    <3>1. CASE p # o
      BY <1>4, <1>8, <2>2, <3>1 DEF AccountsInv, InvitedOnce, MayBeAdmitted, MembersOf
    <3>2. CASE p = o /\ n = u
      BY <1>9, <3>2 DEF InvitedOnce
    <3>3. CASE p = o /\ n # u
      <4>1. InvitedOnce(n, o)
        BY DEF AccountsInv
      <4>2. MayBeAdmitted(n, o) => MayBeAdmitted(n, o)'
        BY <1>4, <1>6, <2>1, <2>2, <3>3 DEF MayBeAdmitted, MembersOf
      <4> QED
        BY <1>3, <1>4, <1>8, <3>3, <4>1, <4>2 DEF InvitedOnce
    <3> QED
      BY <3>1, <3>2, <3>3
  <2>6. ASSUME NEW p \in OpIDs PROVE Preparing(p)'
    <3>1. CASE p # o
      BY <1>4, <2>1, <2>2, <3>1 DEF AccountsInv, Preparing, InStorage, MembersOf
    <3>2. CASE p = o
      BY <1>3, <1>4, <1>6, <1>7, <2>1, <2>2, <3>2 DEF Preparing, InStorage, MembersOf
    <3> QED
      BY <3>1, <3>2
  <2>7. ASSUME NEW p \in OpIDs PROVE Collecting(p)'
    BY <1>4, <2>1 DEF AccountsInv, Collecting, InStorage, MembersOf, Participants,
       Contributors
  <2>8. ASSUME NEW v \in Users PROVE FreshOperation(v)'
    <3> SUFFICES ASSUME pc'[v] = "dec_prep" PROVE FreshOperation(v)'
      BY DEF FreshOperation
    <3>1. \A n \in Users : Invitations(n, frame[v].op)' = {}
      BY <1>8, <1>10, <1>12 DEF FreshOperation
    <3> QED
      BY <1>4, <1>10, <2>1, <2>2, <3>1 DEF FreshOperation
  <2>9. ASSUME NEW v \in Users PROVE OwnDuty(v)'
    <3>1. CASE v = u
      BY <1>12, <3>1 DEF OwnDuty
    <3>2. CASE v # u
      <4>1. OwnDuty(v) /\ pc'[v] = pc[v] /\ frame'[v] = frame[v]
        BY <1>4, <3>2 DEF AccountsInv
      <4>2. pc[v] = "par_reg" => frame[v].op \in OpIDs
        BY DEF IInv, LocalsOK
      <4> QED
        BY <1>3, <1>6, <2>1, <2>2, <4>1, <4>2 DEF OwnDuty
    <3> QED
      BY <3>1, <3>2
  <2> QED
    BY <1>5, <2>4, <2>5, <2>6, <2>7, <2>8, <2>9 DEF AccountsInv, StorageKept
<1>13. CASE /\ AddLastParticipant(o, u, isOwner)
            /\ frame' = [frame EXCEPT ![u].opPrepRecord = w,
                   ![u].todo = [owners |-> w.owners_found,
                                reg_members |-> w.reg_members_found]]
            /\ pc'[u] = "par_tell"
  <2>1. /\ q # "NotRequired" /\ HasEnoughParticipants(r)
        /\ prep' = [prep EXCEPT ![o] = Absent]
        /\ collected' = [collected EXCEPT ![o] =
               NewCollectedRecord(r.requester, r.userset,
                                  r.required_owners, r.required_reg_members)]
        /\ team' = [team EXCEPT ![o] = [owners |-> r.owners_found,
                                        reg_members |-> r.reg_members_found]]
    BY <1>2, <1>3, <1>13 DEF AddLastParticipant, w, Emplace, Preparing
  <2>2. /\ prep'[o] = Absent /\ collected[o] = Absent /\ collected'[o] # Absent
        /\ collected'[o] = NewCollectedRecord(r.requester, r.userset,
                                  r.required_owners, r.required_reg_members)
        /\ team'[o] = [owners |-> r.owners_found, reg_members |-> r.reg_members_found]
        /\ team'[o] # Absent
        /\ \A p \in OpIDs \ {o} : /\ prep'[p] = prep[p] /\ collected'[p] = collected[p]
                                  /\ team'[p] = team[p]
    <3>1. /\ NewCollectedRecord(r.requester, r.userset,
                 r.required_owners, r.required_reg_members) \in CollectedRecord
          /\ [owners |-> r.owners_found, reg_members |-> r.reg_members_found] \in MemberLists
      BY <1>6, <2>1, NewCollectedRecordTypes DEF PrepareRecord, MemberLists
    <3> QED
      BY <1>3, <2>1, <3>1, AbsentAssumption DEF Preparing, IInv, TypeOK, DMTypeOK
  <2>3. /\ frame'[u].op = o
        /\ frame'[u].todo = [owners |-> r.owners_found, reg_members |-> r.reg_members_found]
    <3>1. frame[u] \in Frame
      BY DEF IInv, TypeOK
    <3> QED
      BY <1>1, <1>2, <1>13, <3>1 DEF IInv, TypeOK, Frame
  <2>4. ASSUME NEW n \in Users, NEW p \in OpIDs PROVE OwedOnce(n, p)'
    <3>1. CASE p # o  \* nothing changes
      <4>1. ToldBy(n, p)' \subseteq ToldBy(n, p)
        BY <1>4, <2>3, <3>1 DEF ToldBy
      <4>2. Debts(n, p)' \subseteq Debts(n, p)
        BY <1>4, <4>1 DEF Debts, InUpdates, OnTheWay, AtClient, Sending
      <4>3. Missing(p)' = Missing(p)
        BY <2>2, <3>1 DEF Missing, Participants, Contributors
      <4> QED
        BY <2>2, <3>1, <4>2, <4>3 DEF AccountsInv, OwedOnce
    <3>2. CASE p = o  \* nobody owed a part; the participants do now
      <4>1. Debts(n, o) = {}
        BY <2>2 DEF AccountsInv, OwedOnce
      <4>2. /\ ToldBy(n, o) = {} /\ InUpdates(n, o) = {} /\ OnTheWay(n, o) = {}
            /\ AtClient(n, o) = {} /\ ~Sending(n, o)
        BY <4>1, NoDebts
      <4>3. /\ InUpdates(n, o)' = {} /\ OnTheWay(n, o)' = {}
            /\ AtClient(n, o)' = {} /\ ~Sending(n, o)'
        BY <1>4, <1>13, <4>2 DEF InUpdates, OnTheWay, AtClient, Sending
      <4>4. /\ ToldBy(n, o)' \subseteq {u}
            /\ ToldBy(n, o)' # {} => n \in r.owners_found \cup r.reg_members_found
        BY <1>4, <2>3, <4>2 DEF ToldBy
      <4>5. Debts(n, o)' \subseteq {<<"tell", u>>}
        BY <4>3, <4>4 DEF Debts
      <4>6. Debts(n, o)' # {} => ToldBy(n, o)' # {}
        BY <4>3 DEF Debts
      <4>7. Missing(o)' = r.owners_found \cup r.reg_members_found
        BY <2>2 DEF Missing, Participants, Contributors, Senders, NewCollectedRecord
      <4> QED
        BY <2>2, <3>2, <4>4, <4>5, <4>6, <4>7 DEF OwedOnce
    <3> QED
      BY <3>1, <3>2
  <2>5. ASSUME NEW n \in Users, NEW p \in OpIDs PROVE InvitedOnce(n, p)'
    <3>1. CASE p # o
      BY <1>4, <1>8, <2>2, <3>1 DEF AccountsInv, InvitedOnce, MayBeAdmitted, MembersOf
    <3>2. CASE p = o
      BY <1>3, <1>4, <1>8, <2>2, <3>2 DEF AccountsInv, InvitedOnce, Preparing
    <3> QED
      BY <3>1, <3>2
  <2>6. ASSUME NEW p \in OpIDs PROVE Preparing(p)'
    <3>1. CASE p # o
      BY <1>4, <2>2, <3>1 DEF AccountsInv, Preparing, InStorage, MembersOf
    <3>2. CASE p = o
      BY <2>2, <3>2 DEF Preparing
    <3> QED
      BY <3>1, <3>2
  <2>7. ASSUME NEW p \in OpIDs PROVE Collecting(p)'
    <3>1. CASE p # o
      <4>1. Collecting(p)
        BY DEF AccountsInv
      <4>2. /\ collected'[p] = collected[p] /\ team'[p] = team[p]
            /\ Participants(p)' = Participants(p) /\ Contributors(p)' = Contributors(p)
        BY <2>2, <3>1 DEF Participants, Contributors
      <4> HIDE DEF w, q, isOwner
      <4> QED
        BY <1>4, <4>1, <4>2 DEF Collecting, InStorage, MembersOf
    <3>2. CASE p = o
      <4>1. /\ Participants(o)' = r.owners_found \cup r.reg_members_found
            /\ Contributors(o)' = {}
            /\ team'[o].owners = r.owners_found
            /\ team'[o].reg_members = r.reg_members_found
        BY <2>2 DEF Participants, Contributors, Senders, NewCollectedRecord
      <4>2. /\ IsFiniteSet(r.owners_found) /\ IsFiniteSet(r.reg_members_found)
            /\ Cardinality(r.owners_found) \in Nat
            /\ Cardinality(r.reg_members_found) \in Nat
            /\ r.required_owners \in Nat /\ r.required_reg_members \in Nat
        BY <1>6, <2>1, FiniteUsers, FS_Subset, FS_CardinalityType DEF PrepareRecord
      <4>3. /\ Cardinality(r.owners_found) = r.required_owners
            /\ Cardinality(r.reg_members_found) = r.required_reg_members
        BY <1>6, <2>1, <4>2 DEF HasEnoughParticipants
      <4>4. Cardinality(r.owners_found \cup r.reg_members_found) =
              r.required_owners + r.required_reg_members
        <5>1. Cardinality(r.owners_found \cap r.reg_members_found) = 0
          BY <1>6, <2>1, FS_EmptySet
        <5>2. Cardinality(r.owners_found \cup r.reg_members_found) =
                Cardinality(r.owners_found) + Cardinality(r.reg_members_found)
                - Cardinality(r.owners_found \cap r.reg_members_found)
          BY <4>2, FS_Union
        <5> HIDE DEF w, q, isOwner
        <5> QED
          BY <4>2, <4>3, <5>1, <5>2
      <4>5. Cardinality(Contributors(o)') =
              Len(collected'[o].owner_layer_parts) + Len(collected'[o].reg_layer_parts)
        BY <2>2, <4>1, FS_EmptySet DEF NewCollectedRecord
      <4>6. /\ collected'[o].requester = r.requester /\ collected'[o].userset = r.userset
            /\ collected'[o].required_owners = r.required_owners
            /\ collected'[o].required_reg_members = r.required_reg_members
        BY <2>2 DEF NewCollectedRecord
      <4>7. /\ o \in allOpIDs /\ InStorage(r.userset)
            /\ r.owners_found \subseteq usersets[r.userset].owners
            /\ r.reg_members_found \subseteq MembersOf(r.userset)
            /\ r.requester \notin r.owners_found \cup r.reg_members_found
        BY <1>3, <1>6, <1>7, <2>1 DEF Preparing
      <4> HIDE DEF w, q, isOwner
      <4> QED
        BY <1>4, <2>2, <3>2, <4>1, <4>3, <4>4, <4>5, <4>6, <4>7
           DEF Collecting, InStorage, MembersOf
    <3> QED
      BY <3>1, <3>2
  <2>8. ASSUME NEW v \in Users PROVE FreshOperation(v)'
    <3> SUFFICES ASSUME pc'[v] = "dec_prep" PROVE FreshOperation(v)'
      BY DEF FreshOperation
    <3>1. \A n \in Users : Invitations(n, frame[v].op)' = {}
      BY <1>8, <1>10 DEF FreshOperation
    <3> QED
      BY <1>4, <1>10, <2>2, <3>1 DEF FreshOperation
  <2>9. ASSUME NEW v \in Users PROVE OwnDuty(v)'
    <3>1. CASE v = u
      <4>1. r.owners_found \cap r.reg_members_found = {}
        BY <1>6, <2>1
      <4>2. frame'[u].todo.owners \cap frame'[u].todo.reg_members = {}
        BY <2>3, <4>1
      <4>3. pc'[u] = "par_tell"
        BY <1>13 DEF IInv, TypeOK
      <4> QED
        BY <3>1, <4>2, <4>3 DEF OwnDuty
    <3>2. CASE v # u
      <4>1. OwnDuty(v) /\ pc'[v] = pc[v] /\ frame'[v] = frame[v]
        BY <1>4, <3>2 DEF AccountsInv
      <4>2. pc[v] = "par_reg" => frame[v].op \in OpIDs
        BY DEF IInv, LocalsOK
      <4> QED
        BY <2>2, <4>1, <4>2 DEF OwnDuty
    <3> QED
      BY <3>1, <3>2
  <2> QED
    BY <1>5, <2>4, <2>5, <2>6, <2>7, <2>8, <2>9 DEF AccountsInv, StorageKept
<1> QED
  BY <1>1, <1>11, <1>12, <1>13 DEF RegisterParticipant, Goto, w, IInv, TypeOK

-----------------------------------------------------------------------------
\* Registering a part settles its sender's debt, and the last part comes when
\* nobody else owes one.

LEMMA SendersAppend ==
    ASSUME NEW parts \in Seq(Part), NEW p \in Part
    PROVE  Senders(Append(parts, p)) = Senders(parts) \cup {p.by}
<1> DEFINE n == Len(parts)
           longer == Append(parts, p)
<1>1. /\ n \in Nat /\ DOMAIN parts = 1..n /\ DOMAIN longer = 1..(n + 1)
      /\ \A i \in 1..n : longer[i] = parts[i]
      /\ longer[n + 1] = p
  OBVIOUS
<1> HIDE DEF n, longer
<1>2. 1..(n + 1) = (1..n) \cup {n + 1}
  BY <1>1
<1>3. {longer[i].by : i \in DOMAIN longer} = {parts[i].by : i \in DOMAIN parts} \cup {p.by}
  BY <1>1, <1>2
<1> QED
  BY <1>3 DEF Senders, longer

\* A part more, from someone who had not sent one, is a contributor more.
LEMMA OnePartMore ==
    ASSUME NEW r \in CollectedRecord, NEW part \in Part, NEW isOwner \in BOOLEAN
    PROVE  LET w == WithPart(r, part, isOwner) IN
           /\ w \in CollectedRecord
           /\ w.requester = r.requester /\ w.userset = r.userset
           /\ w.required_owners = r.required_owners
           /\ w.required_reg_members = r.required_reg_members
           /\ Senders(w.owner_layer_parts) \cup Senders(w.reg_layer_parts) =
                Senders(r.owner_layer_parts) \cup Senders(r.reg_layer_parts) \cup {part.by}
           /\ Len(w.owner_layer_parts) + Len(w.reg_layer_parts) =
                Len(r.owner_layer_parts) + Len(r.reg_layer_parts) + 1
<1> DEFINE w == WithPart(r, part, isOwner)
<1>1. r.owner_layer_parts \in Seq(Part) /\ r.reg_layer_parts \in Seq(Part)
  BY DEF CollectedRecord
<1>2. w \in CollectedRecord
  BY WithPartTypes
<1>3. CASE isOwner
  <2>1. /\ w.owner_layer_parts = Append(r.owner_layer_parts, part)
        /\ w.reg_layer_parts = r.reg_layer_parts
        /\ w.requester = r.requester /\ w.userset = r.userset
        /\ w.required_owners = r.required_owners
        /\ w.required_reg_members = r.required_reg_members
    BY <1>3 DEF WithPart, CollectedRecord
  <2>2. /\ Senders(w.owner_layer_parts) = Senders(r.owner_layer_parts) \cup {part.by}
        /\ Len(w.owner_layer_parts) = Len(r.owner_layer_parts) + 1
        /\ Len(w.reg_layer_parts) = Len(r.reg_layer_parts)
    BY <1>1, <2>1, SendersAppend
  <2> HIDE DEF w
  <2>3. Len(w.owner_layer_parts) + Len(w.reg_layer_parts) =
          Len(r.owner_layer_parts) + Len(r.reg_layer_parts) + 1
    <3>1. PICK m \in Nat, n \in Nat :
              m = Len(r.owner_layer_parts) /\ n = Len(r.reg_layer_parts)
      BY <1>1
    <3>2. PICK x, y : x = Len(w.owner_layer_parts) /\ y = Len(w.reg_layer_parts)
      OBVIOUS
    <3>3. x = (m + 1) /\ y = n
      BY <2>2, <3>1, <3>2
    <3>4. x + y = m + n + 1
      BY <3>3
    <3> QED
      BY ONLY <3>1, <3>2, <3>4
  <2> QED
    BY <1>2, <2>1, <2>2, <2>3 DEF w
<1>4. CASE ~isOwner
  <2>1. /\ w.owner_layer_parts = r.owner_layer_parts
        /\ w.reg_layer_parts = Append(r.reg_layer_parts, part)
        /\ w.requester = r.requester /\ w.userset = r.userset
        /\ w.required_owners = r.required_owners
        /\ w.required_reg_members = r.required_reg_members
    BY <1>4 DEF WithPart, CollectedRecord
  <2>2. /\ Senders(w.reg_layer_parts) = Senders(r.reg_layer_parts) \cup {part.by}
        /\ Len(w.reg_layer_parts) = Len(r.reg_layer_parts) + 1
        /\ Len(w.owner_layer_parts) = Len(r.owner_layer_parts)
    BY <1>1, <2>1, SendersAppend
  <2> HIDE DEF w
  <2>3. Len(w.owner_layer_parts) + Len(w.reg_layer_parts) =
          Len(r.owner_layer_parts) + Len(r.reg_layer_parts) + 1
    <3>1. PICK m \in Nat, n \in Nat :
              m = Len(r.owner_layer_parts) /\ n = Len(r.reg_layer_parts)
      BY <1>1
    <3>2. PICK x, y : x = Len(w.owner_layer_parts) /\ y = Len(w.reg_layer_parts)
      OBVIOUS
    <3>3. x = m /\ y = n + 1
      BY <2>2, <3>1, <3>2
    <3>4. x + y = m + n + 1
      BY <3>3
    <3> QED
      BY ONLY <3>1, <3>2, <3>4
  <2> QED
    BY <1>2, <2>1, <2>2, <2>3 DEF w
<1> QED
  BY <1>3, <1>4

LEMMA RegisterPartPays ==
    ASSUME IInv, AccountsInv, NEW u \in Users, RegisterPart(u)
    PROVE  AccountsInv'
<1>1. PICK o \in OpIDs : o = frame[u].op
  BY DEF RegisterPart, IInv, LocalsOK
<1>2. PICK isOwner \in BOOLEAN : isOwner = UserOwns(u, frame[u].userset)
  BY DEF UserOwns
<1>3. PICK r : r = WithPart(collected[o], frame[u].part, isOwner)
  OBVIOUS
<1>4. /\ AddPart(o, frame[u].part, isOwner) \/ AddLastPart(o, frame[u].part, isOwner)
      /\ UNCHANGED <<prep, allOpIDs, team, updates, usersets, client>>
      /\ pc[u] = "snd_reg" /\ pc'[u] \in {"reply", "finish"}
      /\ \A v \in Users \ {u} : /\ pc'[v] = pc[v] /\ reply'[v] = reply[v]
                                /\ frame'[v] = frame[v]
      /\ reply'[u].kind # "Updates"
      /\ collected[o] # Absent
  BY <1>1, <1>2 DEF RegisterPart, AddPart, AddLastPart, Goto,
     SendDecryptionPartResponse, IInv, TypeOK
<1>5. /\ collected[o] \in CollectedRecord /\ prep[o] = Absent
      /\ frame[u].part \in Part /\ frame[u].part.by = u
      /\ Collecting(o)
  BY <1>4 DEF IInv, TypeOK, DMTypeOK, LocalsOK, AccountsInv, OwnDuty, Preparing
<1>6. Sending(u, o)
  BY <1>1, <1>4 DEF Sending
<1>7. u \in Missing(o) /\ \A d \in Debts(u, o) : d = <<"send", u>>
  <2>1. <<"send", u>> \in Debts(u, o)
    BY <1>6 DEF Debts
  <2> QED
    BY <2>1 DEF AccountsInv, OwedOnce
<1>8. /\ r \in CollectedRecord /\ r # Absent
      /\ r.requester = collected[o].requester /\ r.userset = collected[o].userset
      /\ r.required_owners = collected[o].required_owners
      /\ r.required_reg_members = collected[o].required_reg_members
      /\ Senders(r.owner_layer_parts) \cup Senders(r.reg_layer_parts) =
            Contributors(o) \cup {u}
      /\ Len(r.owner_layer_parts) + Len(r.reg_layer_parts) =
            Len(collected[o].owner_layer_parts) + Len(collected[o].reg_layer_parts) + 1
  <2>1. PICK c \in CollectedRecord, part \in Part :
            c = collected[o] /\ part = frame[u].part /\ part.by = u
    BY <1>5
  <2>2. /\ r \in CollectedRecord
        /\ r.requester = c.requester /\ r.userset = c.userset
        /\ r.required_owners = c.required_owners
        /\ r.required_reg_members = c.required_reg_members
        /\ Senders(r.owner_layer_parts) \cup Senders(r.reg_layer_parts) =
              Senders(c.owner_layer_parts) \cup Senders(c.reg_layer_parts) \cup {part.by}
        /\ Len(r.owner_layer_parts) + Len(r.reg_layer_parts) =
              Len(c.owner_layer_parts) + Len(c.reg_layer_parts) + 1
    <3> DEFINE w == WithPart(c, part, isOwner)
    <3>1. /\ w \in CollectedRecord
          /\ w.requester = c.requester /\ w.userset = c.userset
          /\ w.required_owners = c.required_owners
          /\ w.required_reg_members = c.required_reg_members
          /\ Senders(w.owner_layer_parts) \cup Senders(w.reg_layer_parts) =
               Senders(c.owner_layer_parts) \cup Senders(c.reg_layer_parts) \cup {part.by}
          /\ Len(w.owner_layer_parts) + Len(w.reg_layer_parts) =
               Len(c.owner_layer_parts) + Len(c.reg_layer_parts) + 1
      BY OnePartMore
    <3>2. r = w
      BY <1>3, <2>1
    <3> HIDE DEF w
    <3> QED
      BY <3>1, <3>2
  <2> QED
    BY <2>1, <2>2, AbsentAssumption DEF Contributors
<1>9. /\ IsFiniteSet(Participants(o))
      /\ Contributors(o) \cup {u} \subseteq Participants(o)
      /\ Cardinality(Contributors(o) \cup {u}) =
            Len(r.owner_layer_parts) + Len(r.reg_layer_parts)
  <2>1. /\ u \in Participants(o) /\ u \notin Contributors(o)
        /\ Contributors(o) \subseteq Participants(o)
        /\ Cardinality(Contributors(o)) =
             Len(collected[o].owner_layer_parts) + Len(collected[o].reg_layer_parts)
    BY <1>4, <1>5, <1>7 DEF Missing, Collecting
  <2>2. Participants(o) \subseteq Users
    BY <1>4, <1>5 DEF Collecting, Participants, IInv, TypeOK, DMTypeOK, MemberLists
  <2>3. IsFiniteSet(Participants(o)) /\ IsFiniteSet(Contributors(o))
    BY <2>1, <2>2, FiniteUsers, FS_Subset
  <2>4. Cardinality(Contributors(o) \cup {u}) = Cardinality(Contributors(o)) + 1
    BY <2>1, <2>3, FS_AddElement
  <2> QED
    BY <1>8, <2>1, <2>3, <2>4
<1>10. StorageKept
  BY <1>4, StorageUnchanged
<1>11. ASSUME NEW n \in Users, NEW p \in OpIDs
       PROVE  Debts(n, p)' \subseteq Debts(n, p)
  BY <1>4 DEF Debts, ToldBy, InUpdates, OnTheWay, AtClient, Sending
<1>12. Debts(u, o)' = {}
  <2>1. ~Sending(u, o)'
    BY <1>4 DEF Sending
  <2>2. <<"send", u>> \notin Debts(u, o)'
    BY <2>1 DEF Debts
  <2> QED
    BY <1>7, <1>11, <2>2
<1>13. ASSUME NEW n \in Users, NEW p \in OpIDs
       PROVE  Invitations(n, p)' \subseteq Invitations(n, p)
  BY <1>4 DEF Invitations, LookupBy, LookupOnTheWay, Asking
<1>14. \A n \in Users, p \in OpIDs : InvitedOnce(n, p)'
  BY <1>4, <1>10, <1>13, InvitationsMove DEF InvitationMoves
<1>15. ASSUME NEW v \in Users PROVE OwnDuty(v)'
  BY <1>4 DEF AccountsInv, OwnDuty
<1>16. \A p \in OpIDs \ {o} : collected'[p] = collected[p]
  BY <1>4 DEF AddPart, AddLastPart, IInv, TypeOK, DMTypeOK
<1>17. ASSUME NEW p \in OpIDs PROVE Preparing(p)'
  <2>1. p # o => collected'[p] = collected[p]
    BY <1>16
  <2> QED
    BY <1>4, <1>5, <2>1 DEF AccountsInv, Preparing, InStorage, MembersOf
<1>18. ASSUME NEW v \in Users PROVE FreshOperation(v)'
  <2> SUFFICES ASSUME pc'[v] = "dec_prep" PROVE FreshOperation(v)'
    BY DEF FreshOperation
  <2>1. /\ pc[v] = "dec_prep" /\ frame'[v] = frame[v] /\ frame[v].op \in OpIDs
        /\ FreshOperation(v)
    BY <1>4 DEF AccountsInv, IInv, LocalsOK
  <2>2. frame[v].op # o
    BY <1>4, <2>1 DEF FreshOperation
  <2>3. \A n \in Users : Invitations(n, frame[v].op)' = {}
    BY <1>13, <2>1 DEF FreshOperation
  <2> QED
    BY <1>4, <1>16, <2>1, <2>2, <2>3 DEF FreshOperation
<1>19. ASSUME NEW n \in Users, NEW p \in OpIDs, p # o PROVE OwedOnce(n, p)'
  <2>1. Missing(p)' = Missing(p)
    BY <1>4, <1>16, <1>19 DEF Missing, Participants, Contributors
  <2> QED
    BY <1>11, <1>16, <1>19, <2>1 DEF AccountsInv, OwedOnce
<1>20. ASSUME NEW p \in OpIDs, p # o PROVE Collecting(p)'
  <2>1. /\ Participants(p)' = Participants(p) /\ Contributors(p)' = Contributors(p)
        /\ collected'[p] = collected[p] /\ team'[p] = team[p]
    BY <1>4, <1>16, <1>20 DEF Participants, Contributors
  <2>2. Collecting(p)
    BY DEF AccountsInv
  <2> QED
    BY <1>4, <2>1, <2>2 DEF Collecting, InStorage, MembersOf
<1>21. CASE AddPart(o, frame[u].part, isOwner)
  <2>1. collected'[o] = r
    BY <1>3, <1>21 DEF AddPart, IInv, TypeOK, DMTypeOK
  <2>2. Participants(o)' = Participants(o) /\ Contributors(o)' = Contributors(o) \cup {u}
    BY <1>4, <1>8, <2>1 DEF Participants, Contributors
  <2>3. ASSUME NEW n \in Users PROVE OwedOnce(n, o)'
    <3>1. CASE n = u
      BY <1>12, <3>1 DEF OwedOnce
    <3>2. CASE n # u
      <4>1. n \in Missing(o) => n \in Missing(o)'
        BY <2>2, <3>2 DEF Missing
      <4> QED
        BY <1>8, <1>11, <2>1, <4>1 DEF AccountsInv, OwedOnce
    <3> QED
      BY <3>1, <3>2
  <2>4. Collecting(o)'
    BY <1>4, <1>5, <1>8, <1>9, <2>1, <2>2 DEF Collecting, InStorage, MembersOf
  <2> QED
    BY <1>10, <1>14, <1>15, <1>17, <1>18, <1>19, <1>20, <2>3, <2>4
       DEF AccountsInv, StorageKept
<1>22. CASE AddLastPart(o, frame[u].part, isOwner)
  <2>1. collected'[o] = Absent /\ HasEnoughParts(r)
    BY <1>3, <1>22 DEF AddLastPart, IInv, TypeOK, DMTypeOK
  <2>2. Contributors(o) \cup {u} = Participants(o)  \* by counting them
    <3>1. /\ Len(r.owner_layer_parts) \in Nat /\ Len(r.reg_layer_parts) \in Nat
          /\ r.required_owners \in Nat /\ r.required_reg_members \in Nat
      BY <1>8 DEF CollectedRecord
    <3>2. /\ Len(r.owner_layer_parts) >= r.required_owners
          /\ Len(r.reg_layer_parts) >= r.required_reg_members
      BY <2>1 DEF HasEnoughParts
    <3>3. Cardinality(Participants(o)) = r.required_owners + r.required_reg_members
      BY <1>4, <1>5, <1>8 DEF Collecting
    <3>4. Cardinality(Contributors(o) \cup {u}) >= Cardinality(Participants(o))
      <4>1. PICK a \in Nat, b \in Nat :
                a = Len(r.owner_layer_parts) /\ b = Len(r.reg_layer_parts)
        BY <3>1
      <4>2. PICK c \in Nat, d \in Nat :
                c = r.required_owners /\ d = r.required_reg_members
        BY <3>1
      <4>3. a >= c /\ b >= d
        BY <3>2, <4>1, <4>2
      <4>4. a + b >= c + d
        BY <4>3
      <4> QED
        BY <1>9, <3>3, <4>1, <4>2, <4>4
    <3>5. /\ Cardinality(Contributors(o) \cup {u}) <= Cardinality(Participants(o))
          /\ Cardinality(Participants(o)) = Cardinality(Contributors(o) \cup {u}) =>
               Participants(o) = Contributors(o) \cup {u}
      BY <1>9, FS_Subset
    <3>6. Cardinality(Participants(o)) \in Nat /\ Cardinality(Contributors(o) \cup {u}) \in Nat
      BY <1>9, FS_Subset, FS_CardinalityType
    <3> QED
      BY <3>4, <3>5, <3>6
  <2>3. ASSUME NEW n \in Users PROVE Debts(n, o)' = {}
    <3>1. CASE n = u
      BY <1>12, <3>1
    <3>2. CASE n # u
      <4>1. n \notin Missing(o)
        BY <2>2, <3>2 DEF Missing
      <4> QED
        BY <1>11, <4>1 DEF AccountsInv, OwedOnce
    <3> QED
      BY <3>1, <3>2
  <2>4. \A n \in Users : OwedOnce(n, o)'
    BY <2>3 DEF OwedOnce
  <2>5. Collecting(o)'
    BY <2>1 DEF Collecting
  <2> QED
    BY <1>10, <1>14, <1>15, <1>17, <1>18, <1>19, <1>20, <2>4, <2>5
       DEF AccountsInv, StorageKept
<1> QED
  BY <1>4, <1>21, <1>22

-----------------------------------------------------------------------------
\* Every step of every thread and client preserves the accounts.
LEMMA NextAccountsInv ==
    ASSUME MembersListedOnce, IInv, AccountsInv, [Next]_vars PROVE AccountsInv'
<1>1. ASSUME NEW u \in Users, Request(u) PROVE AccountsInv'
  BY <1>1, UserSetRequestsQuiet, InitiateDecryptionStarts, SendUpdatesMoves,
     ParticipateMoves, SendPartMoves DEF Request
<1>2. ASSUME NEW u \in Users, Handle(u) PROVE AccountsInv'
  BY <1>2, NotifyMemberQuiet, PrepareDecryptionInvites, LookupMemberMoves,
     FindCollectedQuiet, RegisterTooLateQuiet, RegisterParticipantAdmits,
     TellParticipantMoves, RegisterPartPays, FinishOperationQuiet, SendResponseMoves
     DEF Handle
<1>3. ASSUME NEW u \in Users, LoseConnection(u) \/ LogOut(u) PROVE AccountsInv'
  BY <1>3, DisconnectQuiet
<1>4. CASE UNCHANGED vars
  <2>1. \A v \in Users : TakesNoDuty(v) /\ GetsNoTask(v)
    BY <1>4 DEF vars, TakesNoDuty, GetsNoTask
  <2> QED
    BY <1>4, <2>1, QuietStep, StorageUnchanged DEF vars, dmVars
<1> QED
  BY <1>1, <1>2, <1>3, <1>4 DEF Next

LEMMA AccountsInvariance ==
    ASSUME MembersListedOnce PROVE Spec => []AccountsInv
<1>1. Init => AccountsInv
  BY InitAccountsInv
<1>2. IInv /\ AccountsInv /\ [Next]_vars => AccountsInv'
  BY NextAccountsInv
<1> QED
  BY <1>1, <1>2, Invariance, PTL DEF Spec

\* A part is asked for at most once, only of a participant that has not sent
\* it, and only while the operation collects.
THEOREM NobodyOwesTwice ==
    ASSUME MembersListedOnce PROVE Spec => []PartOwedOnce
<1>1. AccountsInv => PartOwedOnce
  <2> SUFFICES ASSUME AccountsInv, NEW m \in Users, NEW o \in OpIDs, Debts(m, o) # {}
               PROVE  /\ Cardinality(Debts(m, o)) = 1
                      /\ collected[o] # Absent /\ m \in Missing(o)
    BY DEF PartOwedOnce
  <2>1. PICK d : d \in Debts(m, o)
    OBVIOUS
  <2>2. Debts(m, o) = {d} /\ collected[o] # Absent /\ m \in Missing(o)
    BY <2>1 DEF AccountsInv, OwedOnce
  <2> QED
    BY <2>2, FS_Singleton
<1> QED
  BY <1>1, AccountsInvariance, PTL

\* register_part finds the record it dereferences: until the thread comes to
\* it, its user's part is missing, and the record waits for it.
THEOREM RecordIsThere ==
    ASSUME MembersListedOnce PROVE Spec => []NoDanglingRecord
<1>1. IInv /\ AccountsInv => NoDanglingRecord
  <2> SUFFICES ASSUME IInv, AccountsInv, NEW u \in Users, pc[u] = "snd_reg"
               PROVE  collected[frame[u].op] # Absent
    BY DEF NoDanglingRecord
  <2>1. PICK o \in OpIDs : o = frame[u].op
    BY DEF IInv, LocalsOK
  <2>2. <<"send", u>> \in Debts(u, o)
    BY <2>1 DEF Debts, Sending
  <2> QED
    BY <2>1, <2>2 DEF AccountsInv, OwedOnce
<1> QED
  BY <1>1, Invariance, AccountsInvariance, PTL

\* Owner slots are filled by owners, nobody fills two slots, the requester
\* fills none, and an operation collects from exactly as many as are required.
THEOREM TeamsAreQualified ==
    ASSUME MembersListedOnce PROVE Spec => []TeamIsQualified
<1>1. AccountsInv => TeamIsQualified
  <2> SUFFICES ASSUME AccountsInv, NEW o \in OpIDs PROVE Preparing(o) /\ Collecting(o)
    BY DEF AccountsInv, TeamIsQualified, Preparing, Collecting
  <2> QED
    BY DEF AccountsInv
<1> QED
  BY <1>1, AccountsInvariance, PTL
==============================================================================
