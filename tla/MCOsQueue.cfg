SPECIFICATION FairSpec
CONSTANTS
    r1 = r1
    r2 = r2
    w1 = w1
    m1 = m1
    m2 = m2
    NoMsg = NoMsg
    Readers <- MCReaders
    Writers <- MCWriters
    Msgs <- MCMsgs
    QueueSize = 2
INVARIANTS TypeOK NoLostWakeup
PROPERTIES ImplementsFifo BlockedReadIsServed
