SPECIFICATION Spec
CONSTANTS
    Handles <- MCHandles
    Bits <- MCBits
    Pids <- MCPids
    Sects <- MCSects
    Receivers <- MCReceivers
    Wanted <- MCWanted
    TextPids <- MCTextPids
    Slots = {s1}
    Text = text
    Nobody = nobody
    NoAsk = noask
    NoPid = 0
    MaxStarts = 2
    TEXT_BUFFER_SIZE = 3
    Lengths = {2}
INVARIANTS HandlesOwned SectionIsCurrent CollectsAsAsked RingAgrees
