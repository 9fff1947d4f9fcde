SPECIFICATION FairSpec
CONSTANTS
    d1 = d1
    a1 = a1
    x1 = x1
    x2 = x2
    Handlers = {d1, a1, x1, x2}
    Kind <- MCKind
    Codes = {e1, e2}
INVARIANTS EverybodyStopped StoppedInReverse CompletionHasRunner CodeReported
PROPERTIES LoopEnds
CHECK_DEADLOCK FALSE
