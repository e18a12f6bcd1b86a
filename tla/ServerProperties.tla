--------------------------- MODULE ServerProperties ---------------------------
(***************************************************************************)
(* What the server promises about decryption operations.                   *)
(***************************************************************************)
EXTENDS ConnectedClientHandler

\* The users whose parts a layer holds.
Senders(parts) == {parts[i].by : i \in DOMAIN parts}

\* Who has sent a part of an operation that is collecting, and who owes one.
Contributors(o) ==
    Senders(collected[o].owner_layer_parts) \cup Senders(collected[o].reg_layer_parts)

Participants(o) == team[o].owners \cup team[o].reg_members

Missing(o) == Participants(o) \ Contributors(o)

\* Where it is recorded that m owes a part of o: a thread still has to tell m,
\* the server holds the task in m's updates, the task is on its way to m, m's
\* client works on it, or m's thread is about to register the part.
ToldBy(m, o) ==
    {u \in Users : /\ pc[u] = "par_tell"
                   /\ frame[u].op = o
                   /\ m \in frame[u].todo.owners \cup frame[u].todo.reg_members}

InUpdates(m, o) == {t \in updates[m].to_decrypt : t.op = o}

OnTheWay(m, o) ==
    IF reply[m].kind = "Updates"
    THEN {t \in reply[m].updates.to_decrypt : t.op = o} ELSE {}

AtClient(m, o) == {t \in client[m].tasks : t.op = o}

Sending(m, o) == pc[m] \in {"snd_find", "snd_reg"} /\ frame[m].op = o

\* The records above, tagged by kind so that they can be counted.
Debts(m, o) ==
    ({"tell"} \X ToldBy(m, o)) \cup ({"update"} \X InUpdates(m, o))
    \cup ({"reply"} \X OnTheWay(m, o)) \cup ({"task"} \X AtClient(m, o))
    \cup (IF Sending(m, o) THEN {<<"send", m>>} ELSE {})

-----------------------------------------------------------------------------
\* A part is asked for at most once, and only of a participant that has not
\* sent it, while the operation still collects.  Hence no participant's part
\* is registered twice, is refused (get_operation_userset finds the operation)
\* or reaches register_part after its record is gone.
PartOwedOnce ==
    \A m \in Users, o \in OpIDs :
        Debts(m, o) # {} =>
            /\ Cardinality(Debts(m, o)) = 1
            /\ collected[o] # Absent
            /\ m \in Missing(o)

\* register_part dereferences what it finds in _collected without a check: the
\* record is still there whenever a thread gets that far, although the thread
\* looked it up (get_operation_userset) before, under a mutex since released.
NoDanglingRecord ==
    \A u \in Users : pc[u] = "snd_reg" => collected[frame[u].op] # Absent

\* While an operation collects, every part it lacks is owed by someone who
\* knows of it: nothing else would ever bring the part.
MissingPartsAreOwed ==
    \A o \in OpIDs :
        collected[o] # Absent => \A m \in Missing(o) : Debts(m, o) # {}

\* An operation does not go on collecting when all its participants have
\* sent their parts: register_part releases it with the last part.
NoStuckCollection ==
    \A o \in OpIDs : collected[o] # Absent => Missing(o) # {}

-----------------------------------------------------------------------------
\* The userset members looked for: whoever fills an owner slot is an owner,
\* nobody fills two slots, the requester fills none (the client adds that part
\* itself), and collection starts with exactly as many as the thresholds ask.
TeamIsQualified ==
    \A o \in OpIDs :
        /\ prep[o] # Absent =>
              LET r == prep[o] IN
              /\ r.owners_found \subseteq usersets[r.userset].owners
              /\ r.reg_members_found \subseteq MembersOf(r.userset)
              /\ r.owners_found \cap r.reg_members_found = {}
              /\ r.requester \notin r.owners_found \cup r.reg_members_found
              /\ Cardinality(r.owners_found) <= r.required_owners
              /\ Cardinality(r.reg_members_found) <= r.required_reg_members
        /\ collected[o] # Absent =>
              LET r == collected[o] IN
              /\ prep[o] = Absent
              /\ team[o].owners \subseteq usersets[r.userset].owners
              /\ team[o].reg_members \subseteq MembersOf(r.userset)
              /\ r.requester \notin Participants(o)
              /\ Cardinality(Participants(o)) =
                     r.required_owners + r.required_reg_members
              /\ Cardinality(team[o].owners) = r.required_owners

\* Every finished decryption that is waiting, on its way or delivered.
FinishedRecords ==
    (UNION {updates[u].finished_decryptions : u \in Users})
    \cup (UNION {client[u].results : u \in Users})
    \cup (UNION {reply[u].updates.finished_decryptions :
                    u \in {v \in Users : reply[v].kind = "Updates"}})

\* One layer of a finished decryption can be joined: it has one part of every
\* member asked for that layer, and all parts were computed with the same set
\* of shard IDs, the one whose shards (the requester's too) are being joined.
LayerJoins(parts, shardIDs, layer, members) ==
    /\ Senders(parts) = members
    /\ Len(parts) = Cardinality(members)
    /\ Len(shardIDs) = Len(parts) + 1
    /\ \A i \in DOMAIN parts :
          /\ parts[i].layer = layer
          /\ parts[i].ids = {shardIDs[j] : j \in DOMAIN shardIDs}
          /\ shardIDs[i][1] = parts[i].by

\* What a requester gets back can be decrypted, however the operation's
\* messages interleaved with those of others.
FinishedDecryptionsJoin ==
    \A f \in FinishedRecords :
        LET members == IF team[f.op] = Absent THEN Nobody ELSE team[f.op]
        IN  /\ LayerJoins(f.owner_layer_parts, f.owner_layer_shards_ids,
                          "owner", members.owners)
            /\ LayerJoins(f.reg_layer_parts, f.reg_layer_shards_ids,
                          "reg", members.reg_members)

\* An operation is reported once, and only to the user who started it.
ReportedOnce ==
    \A o \in OpIDs :
        /\ Cardinality({f \in FinishedRecords : f.op = o}) <= 1
        /\ \A f \in FinishedRecords : f.op = o =>
              prep[o] = Absent /\ collected[o] = Absent

-----------------------------------------------------------------------------
\* An operation only moves forward: once it has its participants they are
\* final, it is never prepared again, and once finished never collects again.
OperationsMoveForward ==
    [][\A o \in OpIDs : team[o] # Absent =>
           /\ team'[o] = team[o]
           /\ prep'[o] = Absent
           /\ collected[o] = Absent => collected'[o] = Absent]_vars

-----------------------------------------------------------------------------
\* A thread goes on with the request it has.  The client's queue hands out
\* tickets in order and its update cycle never ends, so each of the client's
\* waiting threads gets its turn although others ask again and again.
Fairness ==
    \A u \in Users :
        /\ WF_vars(Handle(u))
        /\ SF_vars(SendUpdates(u))
        /\ SF_vars(Participate(u))
        /\ SF_vars(SendPart(u))

FairSpec == Spec /\ Fairness

HasResult(o) == \E u \in Users : \E f \in client[u].results : f.op = o

\* A requester that was given an operation ID gets the decryption's parts.
DecryptionCompletes ==
    \A o \in OpIDs :
        (\E u \in Users : o \in client[u].pendingDecryptions) ~> HasResult(o)

\* Every member of a userset in storage gets its key shards.
KeyShardsDelivered ==
    \A s \in UserSetIDs, u \in Users :
        (usersets[s] # Absent /\ u \in MembersOf(s)) ~> s \in client[u].profile
==============================================================================
