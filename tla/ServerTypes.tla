----------------------------- MODULE ServerTypes -----------------------------
(***************************************************************************)
(* The values the server components exchange: stored usersets, the two     *)
(* kinds of operation records, decryption parts and the update packet.     *)
(*                                                                         *)
(* Keys, ciphertexts and shard values are abstracted away.  The shard ID    *)
(* of a member in a userset is the pair of the two: storage issues one ID  *)
(* per (member, userset), unique inside the userset.                       *)
(***************************************************************************)
EXTENDS Integers, Sequences, FiniteSets

CONSTANTS
    Users,       \* usernames of existing accounts
    UserSetIDs,  \* userset identifiers (bounds the number of usersets)
    OpIDs,       \* operation identifiers (bounds the number of decryptions)
    Absent       \* stands for "no entry under this key"

Layers == {"reg", "owner"}

ShardIDs == Users \X UserSetIDs

\* get_shard_id of every user in a set
ShardsOf(users, s) == {<<u, s>> : u \in users}

PartRequirement == {"NotRequired", "RegPart", "OwnerPart"}

\* What storage keeps of a userset.
UserSetInfo ==
    [owners : SUBSET Users, reg_members : SUBSET Users,
     owners_threshold : Nat, reg_members_threshold : Nat]

\* An operation that is looking for participants.
PrepareRecord ==
    [requester : Users, userset : UserSetIDs,
     required_owners : Nat, required_reg_members : Nat,
     owners_found : SUBSET Users, reg_members_found : SUBSET Users]

\* A decryption part: who computed it, for which layer, and the shard IDs
\* that entered its Lagrange coefficient.
Part == [by : Users, layer : Layers, ids : SUBSET ShardIDs]

\* An operation that is collecting parts.  The two parallel vectors of a layer
\* (parts, shard IDs) are one sequence: a part's shard ID is that of its "by".
CollectedRecord ==
    [requester : Users, userset : UserSetIDs,
     required_owners : Nat, required_reg_members : Nat,
     reg_layer_parts : Seq(Part), owner_layer_parts : Seq(Part)]

\* The two lists of members a loop goes through, or an operation started with.
MemberLists == [owners : SUBSET Users, reg_members : SUBSET Users]

\* UpdateResponse::ToDecryptRecord and UpdateResponse::FinishedDecryptionsRecord
ToDecrypt == [op : OpIDs, shards_ids : SUBSET ShardIDs]

Finished ==
    [op : OpIDs,
     reg_layer_parts : Seq(Part), owner_layer_parts : Seq(Part),
     reg_layer_shards_ids : Seq(ShardIDs), owner_layer_shards_ids : Seq(ShardIDs)]

UpdateResponse ==
    [added_as_owner : SUBSET UserSetIDs, added_as_reg_member : SUBSET UserSetIDs,
     on_lookup : SUBSET OpIDs, to_decrypt : SUBSET ToDecrypt,
     finished_decryptions : SUBSET Finished]

NoUpdates ==
    [added_as_owner |-> {}, added_as_reg_member |-> {}, on_lookup |-> {},
     to_decrypt |-> {}, finished_decryptions |-> {}]

ASSUME AbsentAssumption ==
    /\ Absent \notin UserSetInfo
    /\ Absent \notin PrepareRecord
    /\ Absent \notin CollectedRecord
    /\ Absent \notin MemberLists
    /\ Absent \notin OpIDs
    /\ Absent \notin UserSetIDs

ASSUME FiniteUsers == IsFiniteSet(Users)
==============================================================================
