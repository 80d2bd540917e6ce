SPECIFICATION Spec
CONSTANTS
    w1 = w1  w2 = w2  a1 = a1  a2 = a2  a3 = a3  a4 = a4  i1 = i1
    e1 = e1  e2 = e2  e3 = e3
    Worker <- Workers2
    NoWorker = NoWorker
    Account <- Accounts4
    NoAccount = NoAccount
    Invitation <- Invitations1
    NoInvitation = NoInvitation
    Email <- Emails3
    Staff <- Staff2
    MailOf <- Mail2
    MaxRequests = 3
    MaxMoves = 1
INVARIANTS
    OneAccountPerInvitation
PROPERTIES
    AcceptedOnRecentAuthority
    StatusOfWhatWasSeen
CHECK_DEADLOCK FALSE
