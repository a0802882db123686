CONSTANTS
    Subscriptions = {s1}
    Editors = {e1}
    Notifiers = {n1}
    Notifications = {"plain"}
    Events = {"deep", "nowhere"}
    Claims = {2}
    MaxCounter = 3
    BatchSize = 2
    MaxMessages = 3
    MaxEdits = 2
    MaxFaults = 1
    MaxCrashes = 1
    NoSub = NoSub
SPECIFICATION FairSpec
CHECK_DEADLOCK FALSE
INVARIANTS
    TypeOK
    PostedInOrderAndOnce
    CountersNeverAhead
    GivenUpForCause
PROPERTY
    ImplementsChannel
