CONSTANTS
    b1 = b1
    b2 = b2
    b3 = b3
    Brokers = {b1, b2}
    Entities = {e1}
    Clients = {c1}
    Handlers = {h1}
    Origins = {b1}
    Ops = {"create", "update"}
    Neighbors <- EachOther
    Peers <- AllPeers
    PageLimit = 1
    MaxWrites = 2
    StampGap = 1
    NoDoc = NoDoc
    NoMut = NoMut
SPECIFICATION FairSpec
CHECK_DEADLOCK FALSE
INVARIANT
    UnseenIsAheadOfCursor
PROPERTY
    EventuallyReplicated
