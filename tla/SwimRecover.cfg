CONSTANTS
    b1 = b1
    b2 = b2
    b3 = b3
    Brokers = {b1, b2}
    Handlers = {}
    Seeds <- EachOther
    Start = "dead"
    MaxInc = 3
    MaxRounds = 0
    MaxCrashes = 0
    MaxInFlight = 0
    NoPeer = NoPeer
SPECIFICATION FairSpec
CHECK_DEADLOCK FALSE
PROPERTY
    RunningPeerRecovers
