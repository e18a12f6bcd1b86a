CONSTANTS
    alice = alice
    bob = bob
    carol = carol
    dave = dave
    mallory = mallory
    s1 = s1
    s2 = s2
    Users = {alice, bob, carol}
    UserSetIDs = {s1}
    OpIDs = {o1}
    Absent = Absent
    Strangers = {mallory}
    Plans <- MCPlans
    Stored <- MCNothing
    MaxDisconnects = 0
SPECIFICATION FairSpec
PROPERTIES KeyShardsDelivered DecryptionCompletes ImplementsAbstractLiveness
