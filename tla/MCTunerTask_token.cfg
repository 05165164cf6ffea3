SPECIFICATION FairSpec
CONSTANTS
    c1 = c1
    f1 = f1
    f2 = f2
    NoFreq = NoFreq
    NoClient = NoClient
    Clients <- OneClient
    Freqs <- TwoFreqs
    Ops <- Tuning
    IsTv = TRUE
    WaitLock = 2
    Useless = 1
    LostTimes = 1
    MaxCalls = 4
    Patient = FALSE
    Opened = TRUE
CHECK_DEADLOCK FALSE
PROPERTY StopReturns
