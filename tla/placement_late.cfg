SPECIFICATION Spec
CONSTANTS
    w1 = w1  w2 = w2  u1 = u1  u2 = u2  u3 = u3  u4 = u4  d1 = d1  d2 = d2
    a1 = a1  p1 = p1  p2 = p2
    Worker <- Workers2
    NoWorker = NoWorker
    User <- Users4
    Client <- Clients
    Invitee <- Newcomer2
    Department <- Offices
    Account <- Clients1
    Project <- Projects2
    Nowhere = Nowhere
    MaxRequests = 4
    Sent <- Operation
SYMMETRY Alike
PROPERTIES
    ArchivedIsReadOnly
CHECK_DEADLOCK FALSE
