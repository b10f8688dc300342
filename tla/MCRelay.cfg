SPECIFICATION Spec
CONSTANTS
    Requests = {r1, r2}
    WithBody = {}
    Hijackable = {r1, r2}
    SendCap = 1
    MailCap = 1
    WireCap = 1
    MaxBody = 0
    MaxChunks = 1
SYMMETRY Symmetry
CHECK_DEADLOCK FALSE
INVARIANTS TypeOK NoDoubleClose TeardownWakesWaiters EndMeansComplete
