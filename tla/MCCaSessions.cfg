SPECIFICATION CaSpec
CONSTANTS
    LiveHandles <- MCLive
    RecHandles <- MCRec
    Pmts <- MCPmts
    SupportedIds <- MCSupported
    CasFails <- MCFails
    Retries = FALSE
    MaxSessions = 4
    MaxCaCalls = 9
INVARIANTS
    SessionsOwned
    SaysWhatRuns
    PinOfThisPlayback
CHECK_DEADLOCK FALSE
