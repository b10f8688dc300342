SPECIFICATION FairSpec
CONSTANTS
    Callers = {"stop"}
    CallStatus = {"connecting", "backoff"}
    MaxGen = 2
CHECK_DEADLOCK FALSE
PROPERTIES StopEndsRun
