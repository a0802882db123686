CONSTANTS
    b1 = b1
    b2 = b2
    b3 = b3
    Brokers = {b1, b2}
    Entities = {e1}
    Clients = {c1, c2}
    Handlers = {h1}
    Origins = {b1, b2}
    Ops = {"create", "update", "delete"}
    Neighbors <- EachOther
    Peers <- AllPeers
    PageLimit = 2
    MaxWrites = 2
    StampGap = 1
    NoDoc = NoDoc
    NoMut = NoMut
SPECIFICATION Spec
CHECK_DEADLOCK FALSE
INVARIANTS
    TypeOK
    LoggedAtOrigin
    OwnMutationNeverReapplied
    CursorNeverSkipsServed
