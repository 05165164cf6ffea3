SPECIFICATION DiskSpec
CONSTANTS
    Mounts <- MCMounts
    UserPaths <- MCUserPaths
    DefaultPath = "/s/d"
    SubOf <- MCSubOf
    IdSpan = 256
    CalmAdds = TRUE
    MaxDisks = 5
    MaxDskCalls = 3
    MaxChanges = 2
INVARIANTS
    WalksTheList
    EventsAgree
PROPERTIES
    ListSettles
CHECK_DEADLOCK FALSE
