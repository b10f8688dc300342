SPECIFICATION FairSpec
CONSTANTS
    MaxReq = 2
    IdSpace = 2
    MaxConn = 2
    Slots = 1
    WireCap = 1
    MaxBody = 1
    MaxChunks = 1
CHECK_DEADLOCK FALSE
INVARIANTS TypeOK UniqueInFlight WiresWithinSession CleanEndComplete BodyWhole Cancellable
PROPERTIES CancelReleasesSlot
