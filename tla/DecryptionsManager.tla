-------------------------- MODULE DecryptionsManager --------------------------
(***************************************************************************)
(* Records of the decryption operations in progress.  Each operator below  *)
(* is the body of one method, which runs under the manager's mutexes and   *)
(* is therefore one step.                                                  *)
(***************************************************************************)
EXTENDS ServerTypes

VARIABLES
    prep,       \* operation -> PrepareRecord, or Absent
    collected,  \* operation -> CollectedRecord, or Absent
    allOpIDs,   \* every operation ID ever handed out
    team        \* history: the participants of an operation, once it has enough

dmVars == <<prep, collected, allOpIDs, team>>

DMTypeOK ==
    /\ prep \in [OpIDs -> PrepareRecord \cup {Absent}]
    /\ collected \in [OpIDs -> CollectedRecord \cup {Absent}]
    /\ allOpIDs \in SUBSET OpIDs
    /\ team \in [OpIDs -> MemberLists \cup {Absent}]

DMInit ==
    /\ prep = [o \in OpIDs |-> Absent]
    /\ collected = [o \in OpIDs |-> Absent]
    /\ allOpIDs = {}
    /\ team = [o \in OpIDs |-> Absent]

\* Fault: one full layer suffices.
HasEnoughParticipantsEither(r) ==
    \/ Cardinality(r.owners_found) >= r.required_owners
    \/ Cardinality(r.reg_members_found) >= r.required_reg_members

HasEnoughParticipants(r) ==
    /\ Cardinality(r.owners_found) >= r.required_owners
    /\ Cardinality(r.reg_members_found) >= r.required_reg_members

\* Fault: one full layer suffices.
HasEnoughPartsEither(r) ==
    \/ Len(r.owner_layer_parts) >= r.required_owners
    \/ Len(r.reg_layer_parts) >= r.required_reg_members

\* Fault: one part more than the threshold (the requester's) is waited for.
HasEnoughPartsStrict(r) ==
    /\ Len(r.owner_layer_parts) > r.required_owners
    /\ Len(r.reg_layer_parts) > r.required_reg_members

HasEnoughParts(r) ==
    /\ Len(r.owner_layer_parts) >= r.required_owners
    /\ Len(r.reg_layer_parts) >= r.required_reg_members

NewPrepareRecord(requester, s, ot, rt) ==
    [requester |-> requester, userset |-> s,
     required_owners |-> ot, required_reg_members |-> rt,
     owners_found |-> {}, reg_members_found |-> {}]

NewCollectedRecord(requester, s, ot, rt) ==
    [requester |-> requester, userset |-> s,
     required_owners |-> ot, required_reg_members |-> rt,
     reg_layer_parts |-> <<>>, owner_layer_parts |-> <<>>]

\* HashMap::emplace leaves an existing entry alone.
Emplace(map, key, value) ==
    IF map[key] = Absent THEN [map EXCEPT ![key] = value] ELSE map

NewOperation(o) ==
    /\ o \notin allOpIDs
    /\ allOpIDs' = allOpIDs \cup {o}
    /\ UNCHANGED <<prep, collected, team>>

PrepareOperation(o, requester, s, ot, rt) ==
    /\ prep' = Emplace(prep, o, NewPrepareRecord(requester, s, ot, rt))
    /\ UNCHANGED <<collected, allOpIDs, team>>

\* Fault: the comparison with the required number lets one more in.
RequirementInclusive(r, isOwner) ==
    CASE isOwner /\ Cardinality(r.owners_found) <= r.required_owners -> "OwnerPart"
      [] ~(isOwner /\ Cardinality(r.owners_found) <= r.required_owners)
         /\ Cardinality(r.reg_members_found) <= r.required_reg_members -> "RegPart"
      [] OTHER -> "NotRequired"

\* What a willing member is needed for: an owner fills the owner slots first
\* and then the regular ones, a regular member only the regular ones.
Requirement(r, isOwner) ==
    CASE isOwner /\ Cardinality(r.owners_found) < r.required_owners -> "OwnerPart"
      [] ~(isOwner /\ Cardinality(r.owners_found) < r.required_owners)
         /\ Cardinality(r.reg_members_found) < r.required_reg_members -> "RegPart"
      [] OTHER -> "NotRequired"

WithParticipant(r, user, requirement) ==
    IF requirement = "OwnerPart"
    THEN [r EXCEPT !.owners_found = @ \cup {user}]
    ELSE [r EXCEPT !.reg_members_found = @ \cup {user}]

\* register_participant, a needed member, and more are needed after it.
AddParticipant(o, user, isOwner) ==
    LET requirement == Requirement(prep[o], isOwner)
        r == WithParticipant(prep[o], user, requirement)
    IN  /\ requirement # "NotRequired"
        /\ ~HasEnoughParticipants(r)
        /\ prep' = [prep EXCEPT ![o] = r]
        /\ UNCHANGED <<collected, allOpIDs, team>>

\* Fault: the prepared record is not erased.
AddLastParticipantKeep(o, user, isOwner) ==
    LET r == WithParticipant(prep[o], user, Requirement(prep[o], isOwner))
    IN  /\ Requirement(prep[o], isOwner) # "NotRequired"
        /\ HasEnoughParticipants(r)
        /\ collected' = Emplace(collected, o,
               NewCollectedRecord(r.requester, r.userset,
                                  r.required_owners, r.required_reg_members))
        /\ team' = [team EXCEPT ![o] = [owners |-> r.owners_found,
                                        reg_members |-> r.reg_members_found]]
        /\ UNCHANGED <<prep, allOpIDs>>

\* register_participant, the last needed member: under both mutexes the
\* operation leaves the preparation stage for the collection stage.
AddLastParticipant(o, user, isOwner) ==
    LET requirement == Requirement(prep[o], isOwner)
        r == WithParticipant(prep[o], user, requirement)
    IN  /\ requirement # "NotRequired"
        /\ HasEnoughParticipants(r)
        /\ collected' = Emplace(collected, o,
               NewCollectedRecord(r.requester, r.userset,
                                  r.required_owners, r.required_reg_members))
        /\ prep' = [prep EXCEPT ![o] = Absent]
        /\ team' = [team EXCEPT ![o] = [owners |-> r.owners_found,
                                        reg_members |-> r.reg_members_found]]
        /\ UNCHANGED allOpIDs

\* register_part stores the part by the sender's membership (isOwner), not by
\* the layer the sender was asked for.  It dereferences the entry of o without
\* looking whether there is one: see NoDanglingRecord.
WithPart(r, part, isOwner) ==
    IF isOwner
    THEN [r EXCEPT !.owner_layer_parts = Append(@, part)]
    ELSE [r EXCEPT !.reg_layer_parts = Append(@, part)]

AddPart(o, part, isOwner) ==
    LET r == WithPart(collected[o], part, isOwner)
    IN  /\ ~HasEnoughParts(r)
        /\ collected' = [collected EXCEPT ![o] = r]
        /\ UNCHANGED <<prep, allOpIDs, team>>

\* Fault: the collected record is not erased.
AddLastPartKeep(o, part, isOwner) ==
    LET r == WithPart(collected[o], part, isOwner)
    IN  /\ HasEnoughParts(r)
        /\ collected' = [collected EXCEPT ![o] = r]
        /\ UNCHANGED <<prep, allOpIDs, team>>

AddLastPart(o, part, isOwner) ==
    LET r == WithPart(collected[o], part, isOwner)
    IN  /\ HasEnoughParts(r)
        /\ collected' = [collected EXCEPT ![o] = Absent]
        /\ UNCHANGED <<prep, allOpIDs, team>>
==============================================================================
