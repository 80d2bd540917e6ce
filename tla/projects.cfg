SPECIFICATION FairSpec
CONSTANTS
    w1 = w1  w2 = w2  boss = boss  ann = ann
    d1 = d1  d2 = d2  p1 = p1  p2 = p2  t1 = t1  t2 = t2  c1 = c1
    Worker <- Workers2
    NoWorker = NoWorker
    User <- Users2
    Department = {d1, d2}
    NoDepartment = NoDepartment
    Project <- Projects2
    Task <- Tasks2
    Account = {c1}
    ProjectOf <- InP1
    Grants <- Held
    WorksIn <- Offices
    Begun <- FirstIs
    Home <- AllInD1
    Staff <- AnnIsOn
    Opened <- T1Is
    Assigned <- AnnHasIt
    Asked <- Statuses
    Places <- Offices2
    Joining = {ann}
    MaxRequests = 3
    Sent <- Several
PROPERTIES
    ArchivedGainsNothing
    WritersHaveAuthority
    WritesOverWhatWasSeen
    EveryRequestEnds
CHECK_DEADLOCK FALSE
