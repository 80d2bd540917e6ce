SPECIFICATION LogSpec
CONSTANTS
    w1 = w1  w2 = w2  u1 = u1  u2 = u2
    Worker <- Workers2
    NoWorker = NoWorker
    User <- Users2
    MaxRequests = 2
    MaxChecks = 1
    MaxDamage = 0
    Window <- Windows2
INVARIANTS
    NoFalseAlarm
CHECK_DEADLOCK FALSE
