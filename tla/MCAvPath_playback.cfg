SPECIFICATION Spec
CONSTANTS
    Paths <- MCPaths
    Decoders <- MCDecoders
    VideoPids <- MCVideo
    AudioPids <- MCAudio
    AdPids <- MCAd
    Speeds <- MCSpeeds
    PlayFails <- MCPlayFails
    AvFails <- MCAvFails
    IsM2M = TRUE
    Varied <- MCVaried
    SwitchesRadio = FALSE
INVARIANTS PlaybackOwns DecodesRemembered PlayerAsSet
PROPERTIES LastTakesPlayer
