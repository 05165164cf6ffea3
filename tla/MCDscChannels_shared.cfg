SPECIFICATION Spec
CONSTANTS
    u1 = u1
    u2 = u2
    u3 = u3
    d1 = d1
    d2 = d2
    x = x
    y = y
    Users <- TwoUsers
    Devs <- MCDevs
    dsc_dev <- MCDscDev
    Pids <- MCPids
    Data <- TwoKeys
    Slots <- MCSlots
    Chans <- MCChans
    Keys <- MCKeys
    MayFail = FALSE
    MaxCalls = 6
CHECK_DEADLOCK FALSE
PROPERTY KeyTakesEffect
