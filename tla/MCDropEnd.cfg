SPECIFICATION Spec
CONSTANTS
    Requests = {r1}
    WithBody = {}
    Hijackable = {r1}
    SendCap = 1
    MailCap = 1
    WireCap = 1
    MaxBody = 0
    MaxChunks = 1
CHECK_DEADLOCK FALSE
INVARIANTS DroppedIsFailed
