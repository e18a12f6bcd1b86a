------------------------------- MODULE PacketTypes -------------------------------
(* The packets of the protocol (packets.hpp), each a record of its fields.        *)
EXTENDS Sequences

CONSTANTS Texts, Uuids, Elems, BigInts, ByteStrings, MemberCounts

PrivKeyShards == [id : BigInts, value : BigInts]
Ciphertexts == [c1 : Elems, c2 : Elems, c3a : ByteStrings, c3b : ByteStrings]

ErrorResponses == [kind : {"ErrorResponse"}, msg : Texts]

SignupRequests == [kind : {"SignupRequest"}, username : Texts, password : Texts]
SignupResponses == [kind : {"SignupResponse"}, status : {"Success", "UsernameTaken"}]

LoginRequests == [kind : {"LoginRequest"}, username : Texts, password : Texts]
LoginResponses == [kind : {"LoginResponse"}, status : {"Success", "BadLogin"}]

LogoutRequests == [kind : {"LogoutRequest"}]
LogoutResponses == [kind : {"LogoutResponse"}]

\* The requester is an owner besides the listed ones.
MakeUserSetRequests ==
    [kind : {"MakeUserSetRequest"}, reg_members : Seq(Texts), owners : Seq(Texts),
     reg_members_threshold : MemberCounts, owners_threshold : MemberCounts]
MakeUserSetResponses ==
    [kind : {"MakeUserSetResponse"}, user_set_id : Uuids,
     reg_layer_pub_key : Elems, owner_layer_pub_key : Elems,
     reg_layer_priv_key_shard : PrivKeyShards, owner_layer_priv_key_shard : PrivKeyShards]

GetUserSetsRequests == [kind : {"GetUserSetsRequest"}]
GetUserSetsResponses == [kind : {"GetUserSetsResponse"}, user_sets_ids : Seq(Uuids)]

GetMembersRequests == [kind : {"GetMembersRequest"}, user_set_id : Uuids]
GetMembersResponses ==
    [kind : {"GetMembersResponse"}, reg_members : Seq(Texts), owners : Seq(Texts)]

DecryptRequests == [kind : {"DecryptRequest"}, user_set_id : Uuids, ciphertext : Ciphertexts]
DecryptResponses == [kind : {"DecryptResponse"}, op_id : Uuids]

AddedAsMemberRecords ==
    [user_set_id : Uuids, reg_layer_pub_key : Elems, owner_layer_pub_key : Elems,
     reg_layer_priv_key_shard : PrivKeyShards]
AddedAsOwnerRecords ==
    [user_set_id : Uuids, reg_layer_pub_key : Elems, owner_layer_pub_key : Elems,
     reg_layer_priv_key_shard : PrivKeyShards, owner_layer_priv_key_shard : PrivKeyShards]
ToDecryptRecords ==
    [op_id : Uuids, ciphertext : Ciphertexts, shards_ids : Seq(BigInts)]
FinishedDecryptionsRecords ==
    [op_id : Uuids, reg_layer_parts : Seq(Elems), owner_layer_parts : Seq(Elems),
     reg_layer_shards_ids : Seq(BigInts), owner_layer_shards_ids : Seq(BigInts)]

UpdateRequests == [kind : {"UpdateRequest"}]
UpdateResponses ==
    [kind : {"UpdateResponse"},
     added_as_reg_member : Seq(AddedAsMemberRecords), added_as_owner : Seq(AddedAsOwnerRecords),
     on_lookup : Seq(Uuids), to_decrypt : Seq(ToDecryptRecords),
     finished_decryptions : Seq(FinishedDecryptionsRecords)]

DecryptParticipateRequests == [kind : {"DecryptParticipateRequest"}, op_id : Uuids]
DecryptParticipateResponses ==
    [kind : {"DecryptParticipateResponse"},
     status : {"SendRegLayerPart", "SendOwnerLayerPart", "NotRequired"}]

SendDecryptionPartRequests ==
    [kind : {"SendDecryptionPartRequest"}, op_id : Uuids, decryption_part : Elems]
SendDecryptionPartResponses == [kind : {"SendDecryptionPartResponse"}]

\* A packet of a kind; Code names the kinds.
PacketsOfKind(kind) ==
    CASE kind = "ErrorResponse" -> ErrorResponses
      [] kind = "SignupRequest" -> SignupRequests
      [] kind = "SignupResponse" -> SignupResponses
      [] kind = "LoginRequest" -> LoginRequests
      [] kind = "LoginResponse" -> LoginResponses
      [] kind = "LogoutRequest" -> LogoutRequests
      [] kind = "LogoutResponse" -> LogoutResponses
      [] kind = "MakeUserSetRequest" -> MakeUserSetRequests
      [] kind = "MakeUserSetResponse" -> MakeUserSetResponses
      [] kind = "GetUserSetsRequest" -> GetUserSetsRequests
      [] kind = "GetUserSetsResponse" -> GetUserSetsResponses
      [] kind = "GetMembersRequest" -> GetMembersRequests
      [] kind = "GetMembersResponse" -> GetMembersResponses
      [] kind = "DecryptRequest" -> DecryptRequests
      [] kind = "DecryptResponse" -> DecryptResponses
      [] kind = "UpdateRequest" -> UpdateRequests
      [] kind = "UpdateResponse" -> UpdateResponses
      [] kind = "DecryptParticipateRequest" -> DecryptParticipateRequests
      [] kind = "DecryptParticipateResponse" -> DecryptParticipateResponses
      [] kind = "SendDecryptionPartRequest" -> SendDecryptionPartRequests
      [] kind = "SendDecryptionPartResponse" -> SendDecryptionPartResponses
=============================================================================
