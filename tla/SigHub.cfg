SPECIFICATION FairSpec
CONSTANTS
    p1 = p1
    Users = {u1, u2}
    Peers = {p1, p2}
    IdOf <- MCIdOf
    Calls = {c1, c2}
    MaxMsgs = 2
INVARIANTS InOrder ExactlyOnce LeftOnce
PROPERTIES Delivered
CHECK_DEADLOCK FALSE
