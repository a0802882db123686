CONSTANTS
    e1 = e1
    e2 = e2
    Ids = {e1, e2}
    Handlers = {h1, h2}
    Requests <- AllRequests
    Stores <- EmptyOrOne
    MaxRequests = 2
    MaxTime = 2
    MaxFaults = 1
    NoDoc = NoDoc
    NoType = NoType
    Null = Null
SPECIFICATION Spec
CHECK_DEADLOCK FALSE
INVARIANTS
    TypeOK
    EffectsFollowStore
    SuccessIsStoredAndRecorded
    BatchReportsEveryItem
    ReplayedLogIsStore
    CreatedOnce
PROPERTY
    WritesChangeWhatTheyName
