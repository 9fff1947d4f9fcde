SPECIFICATION Spec
CONSTANTS
    MaxTimers = 4
    MaxTime = 2
PROPERTIES ImplementsTimerBackend 
