SPECIFICATION FairSpec
CONSTANTS
    Callers = {"stop"}
    CallStatus = {"online"}
    MaxGen = 3
CHECK_DEADLOCK FALSE
INVARIANTS TypeOK ReleasedAtExit OneConnection
PROPERTIES NeverReleasedEarly StopEndsRun PingersEnd
