SPECIFICATION Spec
CONSTANTS
    w1 = w1  w2 = w2
    s1 = s1  s2 = s2  s3 = s3
    Worker <- Workers2
    Session <- Sessions2
    NoWorker = NoWorker
    NoSession = NoSession
    MaxGen = 2
    MaxPerUser = 1
    AccessTtl = 1
    IdleTtl = 3
    AbsoluteTtl = 3
    RefreshTtl = 3
    MaxClock = 1
    Serves <- LoginAndRest
INVARIANTS
    OneLiveGeneration
    ReusedFamilyIsDead
    AccessFollowsRefresh
    CeilingHolds
    SessionCapHolds
PROPERTIES
    ImplementsFamily
    RevocationIsFinal
    SuspensionLeavesNothing
