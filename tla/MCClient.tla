-------------------------------- MODULE MCClient --------------------------------
EXTENDS ClientProperties

CONSTANTS u1, s1, s2, s3, o1, o2
MCUserSetOf == [o \in OpIDs |-> IF o = o1 THEN s1 ELSE s3]
MCOwners == [s \in UserSetIDs |-> IF s = s2 THEN {} ELSE {u1}]
MCShardID == [p \in Users \X UserSetIDs |-> 1]
MCOldSets == [u \in Users |-> <<s2, s3>>]
=============================================================================
