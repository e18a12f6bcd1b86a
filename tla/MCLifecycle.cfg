CONSTANTS
    c1 = c1
    c2 = c2
    Conns = {c1, c2}
SPECIFICATION FairSpec
CHECK_DEADLOCK FALSE
INVARIANTS TypeOK LiveThreadsOwned NoClientServedAfterStop
PROPERTIES FinishedThreadsReaped StopReturnsIfConnected WaitersReleased
