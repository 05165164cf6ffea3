SPECIFICATION RecSpec
CONSTANTS
    Recorders <- MCRecorders
    Chans <- MCChans
    AudioPids <- MCAudio
    VideoPid = 256
    MaxTracks = 2
    MaxRecCalls = 5
    EncryptsFirst = FALSE
    StartFails <- MCStartFails
    IsM2M = TRUE
CHECK_DEADLOCK FALSE
INVARIANTS RestIsStopped TakenIsKnown
