SPECIFICATION FairSpec
CONSTANTS
    w1 = w1  w2 = w2  m1 = m1  m2 = m2
    Worker <- Workers
    Msg <- Msgs
    NoMsg = NoMsg
    BatchSize = 2
    MaxAttempts = 2
    LeaseTime = 2
    SendTime = 1
    RetryDelay = 1
    MaxFaults = 1
    MaxShutdowns = 1
INVARIANTS
    SharedOnlyAfterOverrun
    DuplicatesNeedACause
PROPERTIES
    Settles
    ImplementsMailbox
