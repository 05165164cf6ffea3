SPECIFICATION FsmSpec
CONSTANTS
    p1 = p1
    p2 = p2
    c1 = c1
    f1 = f1
    f2 = f2
    NoFreq = NoFreq
    NoClient = NoClient
    NoPath = NoPath
    Paths <- TwoPaths
    Clients <- OneClient
    Freqs <- MCFreqs
    QueueMax = 4
    MaxPolls = 1
    MaxCallbacks = 1
    MaxCalls = 3
    StopFirst = FALSE
CHECK_DEADLOCK FALSE
INVARIANT TriesAgain
