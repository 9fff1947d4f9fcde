SPECIFICATION FairSpec
CONSTANTS
    LoopOps = {l1}
    TimedOps = {t1, t2}
INVARIANTS CompletesOnce ValueMeansFired CancelProtects NeverStranded
    NoDanglingLoopOps
PROPERTIES EventuallyCompletes
CHECK_DEADLOCK FALSE
