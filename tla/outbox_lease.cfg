SPECIFICATION Spec
CONSTANTS
    w1 = w1  w2 = w2  m1 = m1  m2 = m2
    Worker <- Workers
    Msg <- Msgs
    NoMsg = NoMsg
    BatchSize = 2
    MaxAttempts = 2
    LeaseTime = 3
    SendTime = 2
    RetryDelay = 1
    MaxFaults = 0
    MaxShutdowns = 0
INVARIANTS
    ClaimsAreExclusive
