SPECIFICATION Spec
CONSTANTS
    w1 = w1  w2 = w2
    s1 = s1  s2 = s2  s3 = s3
    Worker <- Workers2
    Session <- Sessions2
    NoWorker = NoWorker
    NoSession = NoSession
    MaxGen = 1
    MaxPerUser = 0
    AccessTtl = 1
    IdleTtl = 1
    AbsoluteTtl = 1
    RefreshTtl = 1
    MaxClock = 0
    Serves <- SuspendSent
INVARIANTS
    SuspendedHasNoLiveSession
