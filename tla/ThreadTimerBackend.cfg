SPECIFICATION FairSpec
CONSTANTS
    Clients = {c1, c2}
    TimerThread = tt
    MaxTimers = 2
    MaxTime = 1
INVARIANTS ActiveQueued NoLostWakeup BlockedOnInflight
PROPERTIES ImplementsTimerBackend DueTimersFire CancelTerminates
CHECK_DEADLOCK FALSE
