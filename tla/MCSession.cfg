SPECIFICATION FairSpec
CONSTANTS
    Sessions = {s1, s2}
    Tunnels = {t1, t2}
    Admins = {admin}
    Stopper = admin
    None = None
CHECK_DEADLOCK FALSE
INVARIANTS TypeOK NoDeadSessionRegistered OnlineCountAccounted
PROPERTIES SuccessorKept ClosedSessionEnds StopEndsListed
