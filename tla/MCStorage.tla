------------------------------- MODULE MCStorage -------------------------------
(* Instances of the storage for TLC. *)
EXTENDS StorageProperties

CONSTANTS alice, bob, pass, word

MCStored == [u \in {alice, bob} |-> IF u = bob THEN None ELSE pass]

MCPlan(owners, regs) == [owners |-> owners, reg_members |-> regs,
                         owners_threshold |-> 1, reg_members_threshold |-> 1]

\* A member that may be the creator, and is then in both lists; one listed twice,
\* which may not have signed up.
MCPlans == {MCPlan(<<>>, <<bob>>), MCPlan(<<>>, <<bob, bob>>)}
=============================================================================
