SPECIFICATION Spec
CONSTANTS
    NumPaths = 1
    NumTuners = 1
    InputOf <- OneTuner
    CamInput = 1
    ClientCaps <- LiveCaps
    Media = 2
    Poll = 2
    Fill = 2
    BuffSize = 4
    ReadRoom = 2
    Recorded <- Lengths
    Packets <- PacketLengths
    Short = 2
    Span = 2
    Fails <- Anything
    MaxEvents = 3
INVARIANT BuffersFit KeptInOrder LiveWhileUsed ThroughTheCam
PROPERTY MediaServed
CHECK_DEADLOCK FALSE
