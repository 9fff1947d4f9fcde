SPECIFICATION Spec
CONSTANTS
    Peers = {p1, p2}
    Remotes = {p1, None}
    Cands = {c1}
    Contexts = {1, 2}
    None = None
    MaxInbound = 2
INVARIANTS PeersLive InboundExact CandidatesKept
PROPERTIES DisconnectCompletes
CHECK_DEADLOCK FALSE
