------------------------------ MODULE PacketCodec ------------------------------
(***************************************************************************)
(* What the packet handlers put on the wire and what they read from it.    *)
(* A packet is written as a sequence of cells <<type, value>>; it is read  *)
(* back by the layout of its kind, which knows nothing of the writer: a    *)
(* cell of another type is garbage, and past the end there is nothing.     *)
(* Lists are preceded by counts of a fixed width.                          *)
(***************************************************************************)
EXTENDS Naturals, Sequences, SequencesExt

CONSTANTS
    CountRange,   \* 2 to the width of the counts: 256 in the code
    Identity,     \* the group's identity, which has no coordinates
    Nullopt,      \* an integer of size zero
    Garbled       \* what a misplaced read gives

Cell(type, v) == <<type, v>>
Count(list) == Cell("count", Len(list) % CountRange)
Each(Write(_), list) == FlattenSeq([k \in DOMAIN list |-> Write(list[k])])
Id(v) == <<Cell("id", v)>>
Name(v) == <<Cell("str", v)>>

\* write_big_int, of an integer that is there.
BigInt(v) == <<Cell("int", v)>>

\* write_ecgroup_elem: x and y, either of which stands for the element here; an
\* absent x stands for the identity.
Elem(e) == IF e = Identity THEN BigInt(Nullopt) ELSE BigInt(e) \o BigInt(e)
PubKey(e) == Elem(e)
ShardID(id) == BigInt(id)
Shard(s) == ShardID(s.id) \o BigInt(s.value)
DecryptionPart(e) == Elem(e)
Bytes(b) == [k \in DOMAIN b |-> Cell("byte", b[k])]
Ciphertext(c) ==
    Elem(c.c1) \o Elem(c.c2) \o <<Cell("size", Len(c.c3a)), Cell("size", Len(c.c3b))>>
    \o Bytes(c.c3a) \o Bytes(c.c3b)

\* write_update_record, of each record type.
MemberRecord(r) ==
    Id(r.user_set_id) \o PubKey(r.reg_layer_pub_key) \o PubKey(r.owner_layer_pub_key)
    \o Shard(r.reg_layer_priv_key_shard)
OwnerRecord(r) == MemberRecord(r) \o Shard(r.owner_layer_priv_key_shard)
ToDecryptRecord(r) ==
    Id(r.op_id) \o Ciphertext(r.ciphertext) \o <<Count(r.shards_ids)>> \o Each(ShardID, r.shards_ids)
FinishedRecord(r) ==
    <<Count(r.reg_layer_parts), Count(r.owner_layer_parts)>> \o Id(r.op_id)
    \o Each(DecryptionPart, r.reg_layer_parts) \o Each(DecryptionPart, r.owner_layer_parts)
    \o Each(ShardID, r.reg_layer_shards_ids) \o Each(ShardID, r.owner_layer_shards_ids)

-----------------------------------------------------------------------------
\* The body of each packet.
ErrorResponse(p) == Name(p.msg)
SignupRequest(p) == Name(p.username) \o Name(p.password)
SignupResponse(p) == <<Cell("status", p.status)>>
LoginRequest(p) == Name(p.username) \o Name(p.password)
LoginResponse(p) == <<Cell("status", p.status)>>
LogoutRequest(p) == <<>>
LogoutResponse(p) == <<>>
MakeUserSetRequest(p) ==
    <<Cell("threshold", p.owners_threshold), Cell("threshold", p.reg_members_threshold),
      Count(p.owners), Count(p.reg_members)>>
    \o Each(Name, p.owners) \o Each(Name, p.reg_members)
MakeUserSetResponse(p) ==
    Id(p.user_set_id) \o PubKey(p.reg_layer_pub_key) \o PubKey(p.owner_layer_pub_key)
    \o Shard(p.reg_layer_priv_key_shard) \o Shard(p.owner_layer_priv_key_shard)
GetUserSetsRequest(p) == <<>>
GetUserSetsResponse(p) == <<Count(p.user_sets_ids)>> \o Each(Id, p.user_sets_ids)
GetMembersRequest(p) == Id(p.user_set_id)
GetMembersResponse(p) ==
    <<Count(p.owners), Count(p.reg_members)>> \o Each(Name, p.owners) \o Each(Name, p.reg_members)
DecryptRequest(p) == Id(p.user_set_id) \o Ciphertext(p.ciphertext)
DecryptResponse(p) == Id(p.op_id)
UpdateRequest(p) == <<>>
UpdateResponse(p) ==
    <<Count(p.added_as_owner), Count(p.added_as_reg_member), Count(p.on_lookup),
      Count(p.to_decrypt), Count(p.finished_decryptions)>>
    \o Each(OwnerRecord, p.added_as_owner) \o Each(MemberRecord, p.added_as_reg_member)
    \o Each(Id, p.on_lookup) \o Each(ToDecryptRecord, p.to_decrypt)
    \o Each(FinishedRecord, p.finished_decryptions)
DecryptParticipateRequest(p) == Id(p.op_id)
DecryptParticipateResponse(p) == <<Cell("status", p.status)>>
SendDecryptionPartRequest(p) == Id(p.op_id) \o DecryptionPart(p.decryption_part)
SendDecryptionPartResponse(p) == <<>>

\* send_request_data and send_response_data, by the type of the packet.
Data(p) ==
    CASE p.kind = "ErrorResponse" -> ErrorResponse(p)
      [] p.kind = "SignupRequest" -> SignupRequest(p)
      [] p.kind = "SignupResponse" -> SignupResponse(p)
      [] p.kind = "LoginRequest" -> LoginRequest(p)
      [] p.kind = "LoginResponse" -> LoginResponse(p)
      [] p.kind = "LogoutRequest" -> LogoutRequest(p)
      [] p.kind = "LogoutResponse" -> LogoutResponse(p)
      [] p.kind = "MakeUserSetRequest" -> MakeUserSetRequest(p)
      [] p.kind = "MakeUserSetResponse" -> MakeUserSetResponse(p)
      [] p.kind = "GetUserSetsRequest" -> GetUserSetsRequest(p)
      [] p.kind = "GetUserSetsResponse" -> GetUserSetsResponse(p)
      [] p.kind = "GetMembersRequest" -> GetMembersRequest(p)
      [] p.kind = "GetMembersResponse" -> GetMembersResponse(p)
      [] p.kind = "DecryptRequest" -> DecryptRequest(p)
      [] p.kind = "DecryptResponse" -> DecryptResponse(p)
      [] p.kind = "UpdateRequest" -> UpdateRequest(p)
      [] p.kind = "UpdateResponse" -> UpdateResponse(p)
      [] p.kind = "DecryptParticipateRequest" -> DecryptParticipateRequest(p)
      [] p.kind = "DecryptParticipateResponse" -> DecryptParticipateResponse(p)
      [] p.kind = "SendDecryptionPartRequest" -> SendDecryptionPartRequest(p)
      [] p.kind = "SendDecryptionPartResponse" -> SendDecryptionPartResponse(p)

\* The packets whose handlers send no body, not even an empty one.
Bodyless(kind) == kind \in {"LogoutRequest", "LogoutResponse", "GetUserSetsRequest",
                            "UpdateRequest", "SendDecryptionPartResponse"}

-----------------------------------------------------------------------------
\* Layouts.  An item is a field, or a list whose length a count read before it gives,
\* with more elements than it says if the reader knows so.
Counts(field) == [field |-> field, type |-> "count", counted |-> "", more |-> 0]
Sizes(field) == [field |-> field, type |-> "size", counted |-> "", more |-> 0]
One(field, type) == [field |-> field, type |-> type, counted |-> "", more |-> 0]
Many(field, type, count) == [field |-> field, type |-> type, counted |-> count, more |-> 0]
ManyAndOne(field, type, count) == [Many(field, type, count) EXCEPT !.more = 1]

CredentialsLayout == <<One("username", "str"), One("password", "str")>>
StatusLayout == <<One("status", "status")>>
MembersLayout ==
    <<Counts("owners_count"), Counts("reg_count"),
      Many("owners", "str", "owners_count"), Many("reg_members", "str", "reg_count")>>
MakeUserSetLayout ==
    <<One("owners_threshold", "threshold"), One("reg_members_threshold", "threshold")>>
    \o MembersLayout
UserSetMadeLayout ==
    <<One("user_set_id", "id"), One("reg_layer_pub_key", "elem"),
      One("owner_layer_pub_key", "elem"), One("reg_layer_priv_key_shard", "shard"),
      One("owner_layer_priv_key_shard", "shard")>>
UserSetsLayout == <<Counts("count"), Many("user_sets_ids", "id", "count")>>
DecryptLayout == <<One("user_set_id", "id"), One("ciphertext", "ciphertext")>>

\* Fault: the layers' lists are read in the wrong order.
UpdateLayoutSwapped ==
    <<Counts("a"), Counts("b"), Counts("c"), Counts("d"), Counts("e"),
      Many("added_as_reg_member", "member_record", "b"), Many("added_as_owner", "owner_record", "a"),
      Many("on_lookup", "id", "c"), Many("to_decrypt", "to_decrypt_record", "d"),
      Many("finished_decryptions", "finished_record", "e")>>

UpdateLayout ==
    <<Counts("a"), Counts("b"), Counts("c"), Counts("d"), Counts("e"),
      Many("added_as_owner", "owner_record", "a"), Many("added_as_reg_member", "member_record", "b"),
      Many("on_lookup", "id", "c"), Many("to_decrypt", "to_decrypt_record", "d"),
      Many("finished_decryptions", "finished_record", "e")>>
PartLayout == <<One("op_id", "id"), One("decryption_part", "elem")>>

ShardLayout == <<One("id", "int"), One("value", "int")>>
CiphertextLayout ==
    <<One("c1", "elem"), One("c2", "elem"), Sizes("a_size"), Sizes("b_size"),
      Many("c3a", "byte", "a_size"), Many("c3b", "byte", "b_size")>>
MemberRecordLayout ==
    <<One("user_set_id", "id"), One("reg_layer_pub_key", "elem"),
      One("owner_layer_pub_key", "elem"), One("reg_layer_priv_key_shard", "shard")>>
OwnerRecordLayout == MemberRecordLayout \o <<One("owner_layer_priv_key_shard", "shard")>>
ToDecryptRecordLayout ==
    <<One("op_id", "id"), One("ciphertext", "ciphertext"),
      Counts("ids_count"), Many("shards_ids", "int", "ids_count")>>

\* The initiator's ID comes with those of the parts.
FinishedRecordLayout ==
    <<Counts("reg"), Counts("owner"), One("op_id", "id"),
      Many("reg_layer_parts", "elem", "reg"), Many("owner_layer_parts", "elem", "owner"),
      ManyAndOne("reg_layer_shards_ids", "int", "reg"),
      ManyAndOne("owner_layer_shards_ids", "int", "owner")>>

Layout(kind) ==
    CASE kind \in {"SignupRequest", "LoginRequest"} -> CredentialsLayout
      [] kind \in {"SignupResponse", "LoginResponse", "DecryptParticipateResponse"} -> StatusLayout
      [] kind = "ErrorResponse" -> <<One("msg", "str")>>
      [] kind = "MakeUserSetRequest" -> MakeUserSetLayout
      [] kind = "MakeUserSetResponse" -> UserSetMadeLayout
      [] kind = "GetUserSetsResponse" -> UserSetsLayout
      [] kind = "GetMembersRequest" -> <<One("user_set_id", "id")>>
      [] kind = "GetMembersResponse" -> MembersLayout
      [] kind = "DecryptRequest" -> DecryptLayout
      [] kind \in {"DecryptResponse", "DecryptParticipateRequest"} -> <<One("op_id", "id")>>
      [] kind = "UpdateResponse" -> UpdateLayout
      [] kind = "SendDecryptionPartRequest" -> PartLayout
      [] kind = "shard" -> ShardLayout
      [] kind = "ciphertext" -> CiphertextLayout
      [] kind = "member_record" -> MemberRecordLayout
      [] kind = "owner_record" -> OwnerRecordLayout
      [] kind = "to_decrypt_record" -> ToDecryptRecordLayout
      [] kind = "finished_record" -> FinishedRecordLayout
      [] OTHER -> <<>>

Composite == {"shard", "ciphertext", "member_record", "owner_record", "to_decrypt_record",
              "finished_record"}

-----------------------------------------------------------------------------
\* read_bytes of one value; past the end nothing is read.  A count read from
\* something else may be any number: 0 stands for it.
ReadCell(type, cells, at) ==
    [value |-> IF at <= Len(cells) /\ cells[at][1] = type THEN cells[at][2]
               ELSE IF type \in {"count", "size"} THEN 0 ELSE Garbled,
     at |-> IF at > Len(cells) THEN at ELSE at + 1]

\* read_ecgroup_elem
ReadElem(cells, at) ==
    LET x == ReadCell("int", cells, at)
        y == ReadCell("int", cells, x.at)
    IN  IF x.value = Nullopt THEN [value |-> Identity, at |-> x.at]
        ELSE [value |-> IF x.value = y.value THEN x.value ELSE Garbled, at |-> y.at]

RECURSIVE ReadItems(_, _, _)
Read(type, cells, at) ==
    IF type = "elem" THEN ReadElem(cells, at)
    ELSE IF type \in Composite THEN ReadItems(Layout(type), cells, at)
    ELSE ReadCell(type, cells, at)

ReadMany(type, n, cells, at) ==
    FoldLeft(LAMBDA acc, k : LET r == Read(type, cells, acc.at)
                             IN  [value |-> Append(acc.value, r.value), at |-> r.at],
             [value |-> <<>>, at |-> at], [k \in 1..n |-> k])

ReadItems(items, cells, at) ==
    LET Step(acc, item) ==
            LET r == IF item.counted = "" THEN Read(item.type, cells, acc.at)
                     ELSE ReadMany(item.type, acc.counts[item.counted] + item.more, cells, acc.at)
            IN  IF item.type \in {"count", "size"}
                THEN [acc EXCEPT !.counts = (item.field :> r.value) @@ @, !.at = r.at]
                ELSE [acc EXCEPT !.value = (item.field :> r.value) @@ @, !.at = r.at]
    IN  FoldLeft(Step, [value |-> <<>>, counts |-> <<>>, at |-> at], items)

\* recv_request_data and recv_response_data: the packet, and where it ended.
ReadPacket(kind, cells) ==
    LET r == ReadItems(Layout(kind), cells, 1)
    IN  [packet |-> ("kind" :> kind) @@ r.value, at |-> r.at]
=============================================================================
