\* Ten collections, three records, two changes beside the reader.
SPECIFICATION Spec
CONSTANTS
    Thing = {1, 2, 3}
    Me = 1
    Department = {10}
    NoDepartment = 20
    Parent = 30
    Limits = {1, 2}
    MaxMoves = 2
    InitialRows <- TheRows
    InitialActors <- TheActors
INVARIANTS
    ListAgreesWithGet
    SteadyRowsListedOnce
CHECK_DEADLOCK FALSE
