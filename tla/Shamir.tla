--------------------------------- MODULE Shamir ---------------------------------
(***************************************************************************)
(* Shamir's secret sharing over any numbers with these operations, as the  *)
(* templates of the code are: ModInt for private keys, Fraction for        *)
(* integers.  A polynomial is the sequence of its coefficients, the secret *)
(* first; a shard is <<ID, value>>.                                        *)
(***************************************************************************)
EXTENDS Naturals, Sequences, SequencesExt, FiniteSets

CONSTANTS Plus(_, _), Minus(_, _), Times(_, _), Over(_, _),
          Packed(_)     \* an integer as a number

\* math's pow for a positive exponent.
Power(x, n) == FoldLeft(LAMBDA p, k : Times(p, Packed(x)), Packed(1), [k \in 1..n |-> k])

\* Poly::operator(): terms are added from the constant one.
Evaluated(poly, x) ==
    LET sum[k \in 1..Len(poly)] ==
            IF k = 1 THEN poly[1] ELSE Plus(sum[k - 1], Times(poly[k], Power(x, k - 1)))
    IN  sum[Len(poly)]
Degree(poly) == Len(poly) - 1

\* Fault: the ID zero is not refused.
MayMakeShardsZero(ids) == IsInjective(ids)

\* make_shard refuses the ID zero, make_shards an ID given twice.
MayMakeShards(ids) == 0 \notin ToSet(ids) /\ IsInjective(ids)
MakeShards(poly, ids) == [k \in DOMAIN ids |-> <<ids[k], Evaluated(poly, ids[k])>>]

\* Every ID but the one at i.
Others(i, ids) == RemoveAt(ids, i)

\* get_lagrange_coeff: the product of xj / (xj - xi).
LagrangeCoeff(i, ids) ==
    FoldLeft(LAMBDA p, xj : Times(p, Over(Packed(xj), Minus(Packed(xj), Packed(ids[i])))),
             Packed(1), Others(i, ids))

\* Fault: as many shards as the threshold are taken for enough.
MayRestoreAt(shards, threshold) == Len(shards) >= threshold

\* restore_secret
MayRestore(shards, threshold) == Len(shards) > threshold
Restored(shards) ==
    LET ids == [k \in DOMAIN shards |-> shards[k][1]]
    IN  FoldLeft(LAMBDA s, k : Plus(s, Times(shards[k][2], LagrangeCoeff(k, ids))),
                 Packed(0), [k \in DOMAIN shards |-> k])

\* decrypt_get_2l: the exponent of a member's decryption part, by its place among
\* the IDs that it was given; it refuses IDs that are zero, repeated or not its own.
MayDecrypt(shard, ids) == 0 \notin ToSet(ids) /\ IsInjective(ids) /\ shard[1] \in ToSet(ids)
PartExponent(shard, ids) ==
    Times(shard[2], LagrangeCoeff(CHOOSE k \in DOMAIN ids : ids[k] = shard[1], ids))
=============================================================================
