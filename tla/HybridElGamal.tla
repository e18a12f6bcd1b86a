------------------------------ MODULE HybridElGamal ------------------------------
(***************************************************************************)
(* HybridElGamal2L and its shared decryption: a message is encrypted under *)
(* the public keys of both layers; some members of each layer raise their  *)
(* half of the ciphertext to their shard and send it; the parts of a layer *)
(* are multiplied, and both products together give the symmetric key back. *)
(***************************************************************************)
EXTENDS ECGroup

CONSTANTS
    Sharings,   \* polynomials and members of a layer: [poly, ids]
    Nonces,     \* pairs of r1 and r2
    Scrambled   \* what decryption gives under another key

Key == INSTANCE Shamir WITH Plus <- ModPlus, Minus <- ModMinus, Times <- ModTimes,
                            Over <- ModOver, Packed <- Reduced

VARIABLES
    layers,     \* each layer's sharing, its first coefficient the private key
    ciphertext, \* <<c1, c2, c3>>
    arrived     \* each layer's parts, as they were received
cipherVars == <<layers, ciphertext, arrived>>

CipherInit == layers = <<>> /\ ciphertext = <<>> /\ arrived = <<>>

\* ECHKDF2L: the key depends on the x coordinates of both elements, each in its half.
DerivedKey(z1, z2) == <<z1.point.x, z2.point.x>>
Symmetric(plaintext, key) == [data |-> plaintext, under |-> key]
SymmetricDecrypt(c3, key) == IF c3.under = key THEN c3.data ELSE Scrambled

Layer(sharing) ==
    [poly |-> sharing.poly, shards |-> Key!MakeShards(sharing.poly, sharing.ids),
     pubKey |-> ElemPow(FromScalar(1), sharing.poly[1])]

\* keygen for each layer, and the private keys shared out.
Keygen ==
    /\ layers = <<>>
    /\ \E s1, s2 \in Sharings : layers' = <<Layer(s1), Layer(s2)>>
    /\ UNCHANGED <<ciphertext, arrived>>

\* Elements travel encoded.
Conveyed(elements) == [k \in DOMAIN elements |-> ElemDecoded(ElemEncoded(elements[k]))]

\* encrypt
EncryptMessage(r1, r2) ==
    /\ layers # <<>> /\ ciphertext = <<>>
    /\ LET key == DerivedKey(ElemPow(layers[1].pubKey, r1), ElemPow(layers[2].pubKey, r2))
       IN  ciphertext' = Conveyed(<<FromScalar(r1), FromScalar(r2)>>) \o <<Symmetric("message", key)>>
    /\ UNCHANGED <<layers, arrived>>

\* decrypt_get_2l of all who take part in a layer.
IDsOf(layer) == [k \in DOMAIN layers[layer].shards |-> layers[layer].shards[k][1]]
\* Fault: the part of either layer is made of the first half.
PartsOfFirst(layer) ==
    [k \in DOMAIN IDsOf(layer) |->
        ElemPow(ciphertext[1], Key!PartExponent(layers[layer].shards[k], IDsOf(layer)))]
PartsOf(layer) ==
    [k \in DOMAIN IDsOf(layer) |->
        ElemPow(ciphertext[layer], Key!PartExponent(layers[layer].shards[k], IDsOf(layer)))]
DecryptParts ==
    /\ ciphertext # <<>> /\ arrived = <<>>
    /\ \A layer \in 1..2 : \A k \in DOMAIN layers[layer].shards :
        Key!MayDecrypt(layers[layer].shards[k], IDsOf(layer))
    /\ arrived' = <<Conveyed(PartsOf(1)), Conveyed(PartsOf(2))>>
    /\ UNCHANGED <<layers, ciphertext>>

\* The next part of a layer comes before those that came first.
Overtake ==
    /\ arrived # <<>>
    /\ \E layer \in 1..2 : arrived' = [arrived EXCEPT ![layer] = Tail(@) \o <<Head(@)>>]
    /\ UNCHANGED <<layers, ciphertext>>

CipherNext == Keygen \/ (\E r \in Nonces : EncryptMessage(r[1], r[2])) \/ DecryptParts \/ Overtake

\* utils::product, which starts from the first part.
Product(elements) == FoldLeft(ElemTimes, Head(elements), Tail(elements))
\* decrypt_join_2l and decrypt.
Joined == SymmetricDecrypt(ciphertext[3], DerivedKey(Product(arrived[1]), Product(arrived[2])))
Decrypted ==
    SymmetricDecrypt(ciphertext[3], DerivedKey(ElemPow(ciphertext[1], layers[1].poly[1]),
                                               ElemPow(ciphertext[2], layers[2].poly[1])))

-----------------------------------------------------------------------------
\* Any members of both layers, more than each threshold, get the message back from their
\* parts in whatever order those come, as the private keys themselves would, also with keys,
\* nonces and products on the way that are zero or the identity, which has no coordinates.
MessageRestored == arrived # <<>> => Decrypted = "message" /\ Joined = "message"
=============================================================================
