---------------------------- MODULE AbstractStorage ----------------------------
(***************************************************************************)
(* What a server's storage promises: accounts and usersets come into being *)
(* whole, one at a time, and stay as they are, also over crashes.          *)
(***************************************************************************)
CONSTANTS Users, Passwords, UserSetIDs, Stored, ShardIDs, None

VARIABLES accounts, usersets

Member == [username : Users, shard_id : ShardIDs, is_owner : BOOLEAN]

Init == accounts = Stored /\ usersets = [i \in UserSetIDs |-> None]

NewUser == \E u \in Users, p \in Passwords :
    /\ accounts[u] = None
    /\ accounts' = [accounts EXCEPT ![u] = p]
    /\ UNCHANGED usersets

\* A userset's members are users, each with a shard ID of its own.
Valid(info) ==
    /\ info \subseteq Member
    /\ \A m \in info : accounts[m.username] # None
    /\ \A m, n \in info : m.shard_id = n.shard_id => m = n

NewUserSet == \E i \in UserSetIDs :
    /\ usersets[i] = None
    /\ usersets' = [usersets EXCEPT ![i] = usersets'[i]] /\ usersets'[i] # None
    /\ Valid(usersets'[i])
    /\ UNCHANGED accounts

Next == NewUser \/ NewUserSet
Spec == Init /\ [][Next]_<<accounts, usersets>>
=============================================================================
