SPECIFICATION Spec
CONSTANTS
    u1 = u1
    u2 = u2
    u3 = u3
    d1 = d1
    d2 = d2
    x = x
    y = y
    Users <- MCUsers
    Devs <- MCDevs
    dsc_dev <- MCDscDev
    Pids <- MCPids
    Data <- OneKey
    Slots <- MCSlots
    Chans <- MCChans
    Keys <- MCKeys
    MayFail = TRUE
    MaxCalls = 6
CHECK_DEADLOCK FALSE
INVARIANTS HeldChannelWorks TableBalanced
