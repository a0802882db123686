CONSTANTS
    e1 = e1
    Ids = {e1}
    Handlers = {h1, h2}
    Requests <- AllRequests
    Filters <- AllFilters
    MaxRequests = 3
    MaxTime = 2
    MaxFaults = 1
    NoDoc = NoDoc
    None = None
SPECIFICATION Spec
CHECK_DEADLOCK FALSE
INVARIANTS
    CreatedIfAbsent
    ReplayedLogIsStore
    TimesAgree
    WindowAndLastN
    ReadersAgree
PROPERTY
    HistoryKept
