CONSTANTS
    b1 = b1
    b2 = b2
    b3 = b3
    Brokers = {b1, b2, b3}
    Entities = {e1}
    Clients = {c1}
    Handlers = {}
    Origins = {b1}
    Ops = {"create", "update", "delete", "batchDelete"}
    Neighbors <- NoNeighbors
    Peers <- RelayPeers
    PageLimit = 2
    MaxWrites = 3
    StampGap = 1
    NoDoc = NoDoc
    NoMut = NoMut
SPECIFICATION Spec
CHECK_DEADLOCK FALSE
INVARIANTS
    FollowerLogIsPrefix
    FollowerNeverBehindLog
