SPECIFICATION ScanSpec
CONSTANTS
    c1 = c1
    c2 = c2
    f1 = f1
    f2 = f2
    NoFreq = NoFreq
    NoClient = NoClient
    Clients <- TwoClients
    Freqs <- TwoFreqs
    Ops <- AllOps
    IsTv = TRUE
    WaitLock = 1
    Useless = 1
    LostTimes = 1
    MaxCalls = 4
    Patient = FALSE
    Opened = TRUE
    ScanWeight = 3
    MaxChannels = 1
CHECK_DEADLOCK FALSE
SYMMETRY Symmetry
INVARIANTS StopHasOwner ScanModeHasThread ResultIsListed
PROPERTY RestIsRespected
