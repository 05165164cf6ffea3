SPECIFICATION FairSpec
CONSTANTS
    c1 = c1
    f1 = f1
    f2 = f2
    NoFreq = NoFreq
    NoClient = NoClient
    Clients <- OneClient
    Freqs <- TwoFreqs
    Ops <- AllOps
    IsTv = TRUE
    WaitLock = 2
    Useless = 1
    LostTimes = 1
    MaxCalls = 4
    Patient = TRUE
    Opened = TRUE
CHECK_DEADLOCK FALSE
PROPERTIES TuningEnds StopReturns
