SPECIFICATION EthSpec
CONSTANTS
    taskThread = taskThread
    caller1 = caller1
    caller2 = caller2
    other = other
    m1 = m1
    m2 = m2
    m3 = m3
    NoThread = NoThread
    NoMonitor = NoMonitor
    MonitorTask = taskThread
    Threads <- MCThreads
    Callers <- MCCallers
    Others <- MCOthers
    Monitors <- MCMonitors
    MaxHolds = 2
    StopsOwn = FALSE
SYMMETRY Symmetry
INVARIANTS CountIsHolds OwnerRecognised CalledWhileLive NobodyMissesAChange
