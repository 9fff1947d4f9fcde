SPECIFICATION Spec
CONSTANTS
    Peers = {p1}
    Remotes = {p1, None}
    Cands = {c1}
    Links = {1, 2}
    Threads = {t1, t2}
    None = None
    MaxInbound = 1
    MaxEvents = 4
INVARIANTS WithinLimit CandidatesKept ToldOnce
PROPERTIES DisconnectCompletes
CHECK_DEADLOCK FALSE
