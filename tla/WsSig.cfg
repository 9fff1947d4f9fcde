SPECIFICATION Spec
CONSTANTS
    Peers = {a, b}
    Conns = {1, 2}
    Msgs = {m1}
    None = None
INVARIANTS DeliveredOnce Reachable
PROPERTIES LeaveAnswered
CHECK_DEADLOCK FALSE
