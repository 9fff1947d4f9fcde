SPECIFICATION Spec
CONSTANTS
    LoopOps = {l1}
    TimedOps = {t1}
INVARIANTS CallbackOpAlive
CHECK_DEADLOCK FALSE
