SPECIFICATION Spec
CONSTANTS
    Ids = {i1, i2}
    CustomIds = {i1}
    Secrets = {s1, s2}
    Targets = {t1}
    Handlers = {h1, h2}
    Clients = {c1, c2}
    MaxGen = 2
    RestartWhileBusy = FALSE
    NoId = NoId
    NoSecret = NoSecret
    NoTarget = NoTarget
    Nobody = Nobody
    Absent = Absent
    NoFile = NoFile
SYMMETRY Symmetry
CHECK_DEADLOCK FALSE
INVARIANTS TypeOK AckedCredentialsSurvive SoleOwner MemoryReachesDisk
PROPERTY EntriesKept
