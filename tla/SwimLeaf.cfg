CONSTANTS
    b1 = b1
    b2 = b2
    b3 = b3
    Brokers = {b1, b2, b3}
    Handlers = {h1}
    Seeds <- WatchedLeaf
    Start = "alive"
    MaxInc = 2
    MaxRounds = 2
    MaxCrashes = 0
    MaxInFlight = 1
    NoPeer = NoPeer
SPECIFICATION Spec
CHECK_DEADLOCK FALSE
INVARIANTS
    TypeOK
    DeadOnlyAfterSuspected
