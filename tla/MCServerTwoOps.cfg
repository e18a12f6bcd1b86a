CONSTANTS
    alice = alice
    bob = bob
    carol = carol
    dave = dave
    mallory = mallory
    s1 = s1
    s2 = s2
    Users = {alice, carol, dave}
    UserSetIDs = {s1}
    OpIDs = {o1, o2}
    Absent = Absent
    Strangers = {}
    Plans <- MCNoPlans
    Stored <- MCRivalsOnly
    MaxDisconnects = 0
SPECIFICATION Spec
INVARIANTS ReportedOnce MissingPartsAreOwed
