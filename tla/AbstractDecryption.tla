-------------------------- MODULE AbstractDecryption --------------------------
(***************************************************************************)
(* What the server promises for a decryption operation, without threads,   *)
(* records or messages: it looks for members, members join until there are *)
(* enough, each of them contributes once, and when all have contributed    *)
(* the requester is told.                                                  *)
(***************************************************************************)
CONSTANTS Users, OpIDs

VARIABLES stage, joined, contributed

avars == <<stage, joined, contributed>>

AInit ==
    /\ stage = [o \in OpIDs |-> "none"]
    /\ joined = [o \in OpIDs |-> {}]
    /\ contributed = [o \in OpIDs |-> {}]

Begin(o) ==
    /\ stage[o] = "none"
    /\ stage' = [stage EXCEPT ![o] = "looking"]
    /\ UNCHANGED <<joined, contributed>>

Join(o, u) ==
    /\ stage[o] = "looking"
    /\ u \notin joined[o]
    /\ joined' = [joined EXCEPT ![o] = @ \cup {u}]
    /\ \E next \in {"looking", "collecting"} : stage' = [stage EXCEPT ![o] = next]
    /\ UNCHANGED contributed

Contribute(o, u) ==
    /\ stage[o] = "collecting"
    /\ u \in joined[o] \ contributed[o]
    /\ contributed' = [contributed EXCEPT ![o] = @ \cup {u}]
    /\ stage' = IF contributed'[o] = joined[o]
                THEN [stage EXCEPT ![o] = "complete"] ELSE stage
    /\ UNCHANGED joined

\* One update tells a requester of all its operations that are complete.
Report(os) ==
    /\ \A o \in os : stage[o] = "complete"
    /\ stage' = [o \in OpIDs |-> IF o \in os THEN "reported" ELSE stage[o]]
    /\ UNCHANGED <<joined, contributed>>

ANext ==
    \/ \E o \in OpIDs : Begin(o) \/ \E u \in Users : Join(o, u) \/ Contribute(o, u)
    \/ \E os \in SUBSET OpIDs : Report(os)

ASpec == AInit /\ [][ANext]_avars

\* Once everyone needed has joined, the rest happens.
AFairSpec ==
    /\ ASpec
    /\ \A o \in OpIDs : WF_avars(\/ \E u \in Users : Contribute(o, u)
                                 \/ \E os \in SUBSET OpIDs : o \in os /\ Report(os))
==============================================================================
