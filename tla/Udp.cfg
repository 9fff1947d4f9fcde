SPECIFICATION Spec
CONSTANTS
    Clients = {c1, c2}
    Links = {1, 2, 3}
    MaxCopies = 2
    None = None
INVARIANTS MapIsOpenLinks NoMissedMessage
PROPERTIES Answered
CHECK_DEADLOCK FALSE
