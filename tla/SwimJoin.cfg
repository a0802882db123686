CONSTANTS
    b1 = b1
    b2 = b2
    b3 = b3
    Brokers = {b1, b2}
    Handlers = {h1}
    Seeds <- EachOther
    Start = "empty"
    MaxInc = 2
    MaxRounds = 2
    MaxCrashes = 1
    MaxInFlight = 1
    NoPeer = NoPeer
SPECIFICATION Spec
CHECK_DEADLOCK FALSE
INVARIANTS
    NoInventedIncarnation
    OwnRecordAlive
    RefutationOutranksAccusation
