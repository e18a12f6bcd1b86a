------------------------------ MODULE SecretSharing ------------------------------
(***************************************************************************)
(* A secret shared and restored, over a field as the private keys are      *)
(* (ModInt) and over the integers (Fraction).                              *)
(***************************************************************************)
EXTENDS ModInt, Fraction, Sequences, SequencesExt, FiniteSets

CONSTANTS IDs,           \* the shard IDs tried, with 0
          MaxThreshold,
          Coefficients   \* secrets and coefficients over the integers

Field == INSTANCE Shamir WITH Plus <- ModPlus, Minus <- ModMinus, Times <- ModTimes,
                              Over <- ModOver, Packed <- Reduced
Rational == INSTANCE Shamir WITH Plus <- FracPlus, Minus <- FracMinus, Times <- FracTimes,
                                 Over <- FracOver, Packed <- FracOf

VARIABLES
    over,      \* "field" or "integers"
    poly,      \* the sampled polynomial, the secret first
    shards,    \* make_shards' result
    chosen,    \* the shards that come together
    restored   \* restore_secret's result, or "none" or "failed"
sharingVars == <<over, poly, shards, chosen, restored>>

Outcome(what, result) == [is |-> what, secret |-> result]

SharingInit ==
    /\ over \in {"field", "integers"}
    /\ poly = <<>> /\ shards = <<>> /\ chosen = <<>> /\ restored = Outcome("none", <<>>)

Threshold == Len(poly) - 1
Injective(S, n) == {s \in UNION {[1..k -> S] : k \in 1..n} : IsInjective(s)}

\* sample_poly: as many random coefficients as the threshold, after the secret.
SamplePoly ==
    /\ poly = <<>>
    /\ \E t \in 0..MaxThreshold :
        IF over = "field" THEN poly' \in [1..(t + 1) -> Residues]
        ELSE \E p \in [1..(t + 1) -> Coefficients] : poly' = [k \in DOMAIN p |-> FracOf(p[k])]
    /\ UNCHANGED <<over, shards, chosen, restored>>

MakeShards(ids) ==
    /\ poly # <<>> /\ shards = <<>>
    /\ IF over = "field" THEN Field!MayMakeShards(ids) ELSE Rational!MayMakeShards(ids)
    /\ shards' = IF over = "field" THEN Field!MakeShards(poly, ids) ELSE Rational!MakeShards(poly, ids)
    /\ UNCHANGED <<over, poly, chosen, restored>>

\* Members bring their shards, in any order.
Choose ==
    /\ chosen = <<>>
    /\ chosen' \in Injective(ToSet(shards), Len(shards))
    /\ UNCHANGED <<over, poly, shards, restored>>

\* restore_secret refuses too few; over the integers also a result that is none.
RestoreSecret ==
    /\ chosen # <<>> /\ restored.is = "none"
    /\ Field!MayRestore(chosen, Threshold)
    /\ restored' = IF over = "field" THEN Outcome("done", <<Field!Restored(chosen)>>)
                   ELSE IF Rational!Restored(chosen)[2] # 1 THEN Outcome("failed", <<>>)
                   ELSE Outcome("done", <<Rational!Restored(chosen)>>)
    /\ UNCHANGED <<over, poly, shards, chosen>>

SharingNext ==
    \/ SamplePoly
    \/ \E ids \in Injective(IDs, MaxThreshold + 1) : MakeShards(ids)
    \/ Choose \/ RestoreSecret

-----------------------------------------------------------------------------
\* Whatever shards are brought, in whatever order: the secret is restored or refused.
SecretRestored == restored.is # "none" => restored = Outcome("done", <<poly[1]>>)

\* No more shards than the threshold tell nothing: every secret has a polynomial that
\* gives these shards.
FewShardsTellNothing ==
    over = "field" /\ chosen # <<>> /\ Len(chosen) <= Threshold =>
        \A s \in Residues : \E q \in [1..Len(poly) -> Residues] :
            /\ q[1] = s
            /\ \A k \in DOMAIN chosen : Field!Evaluated(q, chosen[k][1]) = chosen[k][2]
=============================================================================
