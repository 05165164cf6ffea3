SPECIFICATION FsmFairSpec
CONSTANTS
    p1 = p1
    p2 = p2
    c1 = c1
    f1 = f1
    f2 = f2
    NoFreq = NoFreq
    NoClient = NoClient
    NoPath = NoPath
    Paths <- OnePath
    Clients <- OneClient
    Freqs <- MCFreqs
    QueueMax = 4
    MaxPolls = 2
    MaxCallbacks = 1
    MaxCalls = 3
    StopFirst = FALSE
CHECK_DEADLOCK FALSE
INVARIANTS NeverStranded
PROPERTIES TuningEnds StopReturns
