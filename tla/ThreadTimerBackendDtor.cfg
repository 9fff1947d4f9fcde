SPECIFICATION FairSpec
CONSTANTS
    Clients = {c1}
    TimerThread = tt
    MaxTimers = 1
    MaxTime = 1
PROPERTIES DestructorJoins
CHECK_DEADLOCK FALSE
