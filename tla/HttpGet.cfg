SPECIFICATION HttpSpec
CONSTANTS
    Requests = {r1, r2}
    MaxEndpoints = 2
INVARIANTS EachHandledOnce SocketsReleased
PROPERTIES StopEnds
CHECK_DEADLOCK FALSE
