CONSTANTS
    c1 = c1
    c2 = c2
    Clients = {c1, c2}
    BufferSize = 2
    QueueSize = 2
    MaxSeq = 5
SPECIFICATION FairSpec
INVARIANTS
    TypeOK
    InOrderOnce
    EveryEventAccounted
PROPERTIES
    WaitingIsSent
    GoneIsReleased
CHECK_DEADLOCK FALSE
