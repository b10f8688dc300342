SPECIFICATION FairSpec
CONSTANTS
    Requests = {r1}
    WithBody = {r1}
    Hijackable = {r1}
    SendCap = 1
    MailCap = 2
    WireCap = 2
    MaxBody = 2
    MaxChunks = 3
CHECK_DEADLOCK FALSE
INVARIANTS NoSilentGap
PROPERTIES HandlersFinish ReaderMovesOn ContractKept
