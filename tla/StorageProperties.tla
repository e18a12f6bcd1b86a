--------------------------- MODULE StorageProperties ---------------------------
(* What must hold of the storage whatever the connections ask in the meantime, *)
(* and over failures and crashes.                                              *)
EXTENDS ServerStorage

Locations == {"connecting", "connected", "silent", "new_user", "insert_user", "check_members",
              "insert_userset", "sample_shard", "insert_member", "make_keys", "read_members"}
Inserting == {"sample_shard", "insert_member", "make_keys"}
PlannedRow == [username : Users, is_owner : BOOLEAN]
Members == [username : Users, userset_id : UserSetIDs, shard_id : ShardIDs, is_owner : BOOLEAN]

\* What the tables and the threads hold; a thread that makes a userset has names left to
\* insert and, once the row is in, an ID.
TypeOK ==
    /\ accounts \in [Users -> Passwords \cup {None}]
    /\ usersets \in [UserSetIDs -> [owners : Nat, regs : Nat] \cup {None}]
    /\ members \in Seq(Members)
    /\ pc \in [Conns -> Locations] /\ username \in [Conns -> Users \cup {None}]
    /\ DOMAIN req = Conns /\ id \in [Conns -> UserSetIDs \cup {None}]
    /\ todo \in [Conns -> Seq(PlannedRow)] /\ DOMAIN sampled = Conns
    /\ \A c \in Conns :
        /\ pc[c] \in {"new_user", "insert_user"} => req[c] \in [username : Users, password : Passwords]
        /\ pc[c] \in {"check_members", "insert_userset"} \cup Inserting =>
              req[c] \in Plans /\ username[c] \in Users
        /\ pc[c] \in {"insert_userset", "read_members"} \cup Inserting => id[c] \in UserSetIDs
        /\ pc[c] \in {"sample_shard", "insert_member"} => todo[c] # <<>>
        /\ pc[c] = "insert_member" => sampled[c] \in ShardIDs
        /\ pc[c] \in {"connected", "read_members"} => username[c] \in Users
    /\ faults \in 0..MaxFaults

\* Shamir's scheme needs the members' shard IDs to differ: between the look-up of a
\* sampled ID and its insertion no other thread may insert a member of the userset
\* (generate_unique_shard_id, new_userset).
ShardIDsDiffer == \A i, j \in DOMAIN members :
    (members[i].userset_id = members[j].userset_id /\ members[i].shard_id = members[j].shard_id)
        => i = j

\* All rows of the userset are in the table.
Complete(i) == usersets[i] # None /\ Cardinality(RowsOf(i)) = Len(intended[i])

\* An answered make_userset stands for a whole userset, and every key shard handed
\* out or waiting was made for the shard ID that the storage gives for its member.  The
\* members read of a userset are answered with its thresholds and lack none that was
\* there when they were asked for: of an answered userset they are all.
AnsweredSetsComplete ==
    /\ \A c \in Conns : pc[c] = "read_members" =>
          /\ sampled[c] = usersets[id[c]] /\ sampled[c] # None
          /\ req[c].there \subseteq MemberRows(id[c])
    /\ \A c \in Conns : pc[c] = "make_keys" => Complete(id[c])
    /\ \A k \in owed : Complete(k.userset_id) /\ k.shard_id = ShardOf(k.username, k.userset_id)

-----------------------------------------------------------------------------
\* A userset comes into being with its last row.
InfoOf(i) == {[username |-> members[k].username, shard_id |-> members[k].shard_id,
               is_owner |-> members[k].is_owner] : k \in RowsOf(i)}

Infos == [i \in UserSetIDs |-> IF Complete(i) THEN InfoOf(i) ELSE None]

Abstract == INSTANCE AbstractStorage WITH usersets <- Infos

\* Accounts and complete usersets are made in one step each and never change, over
\* crashes too: an interrupted new_userset leaves rows that never become a userset.
ImplementsAbstractStorage == Abstract!Spec

-----------------------------------------------------------------------------
\* A request that is being served is answered, or ends in an exception that nobody
\* answers: sampling an ID ends as long as one is free.
RequestsAnswered == \A c \in Conns : ~Idle(c) ~> (Idle(c) \/ pc[c] = "silent")
=============================================================================
