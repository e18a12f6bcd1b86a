--------------------------------- MODULE MCParts --------------------------------
(***************************************************************************)
(* The parts of the program that keep, compute, carry or show data, each   *)
(* a machine of its own: one of them runs, the others stay as they began.  *)
(***************************************************************************)
EXTENDS BinFileEdit, ProfileStorage, SecretSharing, PacketStream, SocketStream,
        InteractiveConsole, ConsoleClient, ApiHandles, TableView,
        HybridElGamal, Programs

CONSTANTS r1, r2, r3, l1, l2, h1, h2, h3

\* Records of a member and of two owners, whose parts are larger.
MCPartSizes == r1 :> <<1, 1>> @@ r2 :> <<1, 2>> @@ r3 :> <<1, 2>>
MCCoefficients == -2..2
MCStrings == {<<1>>, <<1, 2, 1>>}
MCStopCommand == <<1001>>
MCBlocks == {<<0, 1>>, <<2>>}
MCByteStrings == {<<1>>, <<2, 3>>}

\* The packets that are sent: each kind, with short and long lists, and one with more
\* lookups than its count can say.
S(n) == [id |-> n, value |-> n]
C(e) == [c1 |-> e, c2 |-> "e2", c3a |-> <<1>>, c3b |-> <<2, 3>>]
Member == [user_set_id |-> "u", reg_layer_pub_key |-> "e1", owner_layer_pub_key |-> "e2",
           reg_layer_priv_key_shard |-> S("s1")]
Owner == ("owner_layer_priv_key_shard" :> S("s2")) @@ Member
Task == [op_id |-> "o", ciphertext |-> C("e1"), shards_ids |-> <<"s1", "s2">>]
Result(parts) == [op_id |-> "o", reg_layer_parts |-> parts, owner_layer_parts |-> <<"e2">>,
    reg_layer_shards_ids |-> [k \in 1..(Len(parts) + 1) |-> "s1"],
    owner_layer_shards_ids |-> <<"s1", "s2">>]
UpdateWith(owners, members, lookups, tasks, results) ==
    [kind |-> "UpdateResponse", added_as_owner |-> owners, added_as_reg_member |-> members,
     on_lookup |-> lookups, to_decrypt |-> tasks, finished_decryptions |-> results]

MCPackets ==
    {[kind |-> k, op_id |-> "o"] : k \in {"DecryptResponse", "DecryptParticipateRequest"}}
    \cup {[kind |-> "SignupResponse", status |-> "UsernameTaken"], [kind |-> "LoginResponse", status |-> "Success"],
          [kind |-> "DecryptParticipateResponse", status |-> "SendOwnerLayerPart"]}
    \cup {[kind |-> k, username |-> "a", password |-> "p"] : k \in {"SignupRequest", "LoginRequest"}}
    \cup {[kind |-> k] : k \in {"LogoutRequest", "LogoutResponse", "GetUserSetsRequest",
                                "UpdateRequest", "SendDecryptionPartResponse"}}
    \cup {[kind |-> "ErrorResponse", msg |-> "m"], [kind |-> "GetMembersRequest", user_set_id |-> "u"]}
    \cup {[kind |-> "MakeUserSetRequest", owners_threshold |-> 1, reg_members_threshold |-> 2,
           owners |-> l, reg_members |-> <<"b">>] : l \in {<<>>, <<"a", "c">>}}
    \cup {("kind" :> "MakeUserSetResponse") @@ Owner}
    \cup {[kind |-> "GetUserSetsResponse", user_sets_ids |-> <<"u", "v">>],
          [kind |-> "GetMembersResponse", owners |-> <<"a">>, reg_members |-> <<"b", "c">>],
          [kind |-> "SendDecryptionPartRequest", op_id |-> "o", decryption_part |-> Identity]}
    \cup {[kind |-> "DecryptRequest", user_set_id |-> "u", ciphertext |-> C(e)] : e \in {"e1", Identity}}
    \cup {UpdateWith(<<>>, <<>>, <<>>, <<>>, <<>>), UpdateWith(<<>>, <<>>, <<"u", "v", "u">>, <<>>, <<Result(<<>>)>>),
          UpdateWith(<<Owner, Owner>>, <<Member>>, <<"u">>, <<Task>>, <<Result(<<Identity, "e1">>), Result(<<>>)>>)}

\* Rows whose texts hold a quote and whose blobs may be missing or empty, and conditions on them.
Text(t) == Value("text", t)
Blob(b) == Value("blob", b)
MCRow(id, name, data) == [id |-> Value("int", id), name |-> Text(name), data |-> data]
MCRows == {MCRow(1, <<97>>, NullValue), MCRow(2, <<98, Quote>>, Blob(<<171, 5>>)), MCRow(2, <<97>>, Blob(<<>>))}
Atom(column, op, v) == [column |-> column, op |-> op, value |-> v]
MCConditions ==
    {<<Atom("name", "=", Text(<<98, Quote>>))>>, <<Atom("data", "=", Blob(<<171, 5>>))>>,
     <<Atom("id", "=", Value("int", 1)), Atom("id", ">=", Value("int", 2))>>}
MCColumnSets == {{"id", "name", "data"}, {"id"}, {"count"}, {"avg"}}

\* A key of each layer, its own or shared among two, and who decrypts.
MCSharings ==
    {[poly |-> p, ids |-> i] : p \in [1..1 -> Residues], i \in {<<1>>, <<3, 1>>}}
    \cup {[poly |-> p, ids |-> i] : p \in [1..2 -> Residues], i \in {<<1, 2>>, <<2, 3, 1>>}}
MCNonces == {<<0, 1>>, <<2, 3>>}

\* Arguments: a family, a port with and without a tail, one out of range, one argument
\* twice, and an address of each family or of none.
MCStoi == "80" :> 80 @@ "80x" :> 80 @@ "90" :> 90 @@ "99999" :> 99999 @@ "127.0.0.1" :> 127
MCServerArgs == {<<>>, <<"80", "IPv6">>, <<"IPv4", "80">>, <<"IPv4", "IPv4">>, <<"IPv4", "IPv6">>, <<"99999">>,
                 <<"127.0.0.1">>}
MCClientArgs == {<<"127.0.0.1">>, <<"::1", "80x">>, <<"host">>, <<>>}

VARIABLE part
\* Every machine but p's stays as it is.
OthersRest(p) ==
    /\ IF p = "file" THEN TRUE ELSE UNCHANGED fileVars
    /\ IF p = "profile" THEN TRUE ELSE UNCHANGED profileVars
    /\ IF p = "number" THEN TRUE ELSE UNCHANGED modVars
    /\ IF p = "sharing" THEN TRUE ELSE UNCHANGED sharingVars
    /\ IF p = "packets" THEN TRUE ELSE UNCHANGED streamVars
    /\ IF p = "socket" THEN TRUE ELSE UNCHANGED socketVars
    /\ IF p = "console" THEN TRUE ELSE UNCHANGED consoleVars
    /\ IF p = "program" THEN TRUE ELSE UNCHANGED clientProgramVars
    /\ IF p = "handles" THEN TRUE ELSE UNCHANGED apiVars
    /\ IF p = "sql" THEN TRUE ELSE UNCHANGED sqlVars
    /\ IF p = "group" THEN TRUE ELSE UNCHANGED groupVars
    /\ IF p = "cipher" THEN TRUE ELSE UNCHANGED cipherVars
    /\ IF p \in {"sockets", "startup"} THEN TRUE ELSE UNCHANGED netVars
    /\ IF p = "startup" THEN TRUE ELSE UNCHANGED programVars
partsVars == <<part, fileVars, profileVars, modVars, sharingVars, streamVars, socketVars,
               consoleVars, clientProgramVars, apiVars, sqlVars,
               groupVars, cipherVars, netVars, programVars>>

Init ==
    /\ FileInit /\ ProfileInit /\ SharingInit /\ StreamInit /\ SocketInit
    /\ ConsoleInit /\ ClientProgramInit /\ ApiInit /\ SqlInit /\ GroupInit /\ CipherInit
    /\ NetInit /\ ProgramsInit
    /\ \/ part = "number" /\ ModIntInit
       \/ /\ part \in {"file", "profile", "sharing", "packets", "socket", "console", "program", "handles",
                       "sql", "group", "cipher", "sockets", "startup"}
          /\ value = 0 /\ standsFor = 0
    /\ part = "sharing" \/ over = "field"
    /\ part = "packets" \/ ~inline
    /\ part = "console" \/ system = "linux"

Next ==
    \/ part = "file" /\ FileNext /\ OthersRest(part)
    \/ part = "profile" /\ ProfileNext /\ OthersRest(part)
    \/ part = "number" /\ ModIntNext /\ OthersRest(part)
    \/ part = "sharing" /\ SharingNext /\ OthersRest(part)
    \/ part = "packets" /\ StreamNext /\ OthersRest(part)
    \/ part = "socket" /\ SocketNext /\ OthersRest(part)
    \/ part = "console" /\ ConsoleNext /\ OthersRest(part)
    \/ part = "program" /\ ClientProgramNext /\ OthersRest(part)
    \/ part = "handles" /\ ApiNext /\ OthersRest(part)
    \/ part = "sql" /\ SqlNext /\ OthersRest(part)
    \/ part = "group" /\ GroupNext /\ OthersRest(part)
    \/ part = "cipher" /\ CipherNext /\ OthersRest(part)
    \/ part = "sockets" /\ NetNext /\ OthersRest(part)
    \/ part = "startup" /\ ProgramsNext /\ OthersRest(part)
Spec == Init /\ [][Next /\ UNCHANGED part]_partsVars
=============================================================================
