CONSTANTS
    c1 = c1
    c2 = c2
    Conns = {c1}
SPECIFICATION FairSpec
CHECK_DEADLOCK FALSE
PROPERTY DepartureNoticed
