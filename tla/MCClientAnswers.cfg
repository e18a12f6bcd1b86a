SPECIFICATION Spec
CONSTANTS
    Main = Main
    Queue = Queue
    Workers = {w1}
    NoReq = NoReq
    NoUser = NoUser
    u1 = u1
    s1 = s1
    s2 = s2
    s3 = s3
    o1 = o1
    o2 = o2
    Users = {u1}
    UserSetIDs = {s1, s2, s3}
    OpIDs = {o1, o2}
    Mine = {o1}
    UserSetOf <- MCUserSetOf
    Owners <- MCOwners
    ShardID <- MCShardID
    OldSets <- MCOldSets
    MaxCalls = 2
INVARIANT AnsweredOwnRequest
CHECK_DEADLOCK FALSE
