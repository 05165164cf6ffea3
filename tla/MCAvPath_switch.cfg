SPECIFICATION Spec
CONSTANTS
    Paths <- MCPaths
    Decoders <- MCDecoders
    VideoPids <- MCVideo
    AudioPids <- MCAudio
    AdPids <- MCAd
    Speeds <- MCSpeeds
    PlayFails <- MCPlayFails
    AvFails <- NoFails
    IsM2M = TRUE
    Varied <- Sound
    SwitchesRadio = TRUE
PROPERTIES AudioSwitched
