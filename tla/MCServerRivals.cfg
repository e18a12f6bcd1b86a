CONSTANTS
    alice = alice
    bob = bob
    carol = carol
    dave = dave
    mallory = mallory
    s1 = s1
    s2 = s2
    Users = {alice, bob, carol, dave}
    UserSetIDs = {s1}
    OpIDs = {o1}
    Absent = Absent
    Strangers = {}
    Plans <- MCNoPlans
    Stored <- MCRivals
    MaxDisconnects = 1
SPECIFICATION Spec
INVARIANTS TypeOK PartOwedOnce TeamIsQualified FinishedDecryptionsJoin NoStuckCollection
PROPERTIES OperationsMoveForward ImplementsAbstractDecryption
