SPECIFICATION Spec
CONSTANTS
    MaxReq = 2
    IdSpace = 2
    MaxConn = 2
    Slots = 1
    WireCap = 1
    MaxBody = 0
    MaxChunks = 1
CHECK_DEADLOCK FALSE
INVARIANT NeverCrossWires
