SPECIFICATION Spec
CONSTANTS
    w1 = w1  w2 = w2
    root = root  ann = ann  bob = bob
    admin = admin  custom = custom
    Worker <- Workers2
    NoWorker = NoWorker
    User <- Users3
    Root = root
    Role <- Roles2
    SystemRole <- BuiltIn
    Perm <- Perms
    Dangerous <- IsDangerous
    Seeded <- AdminOnly
    HeldAtFirst <- AnnIsAdmin
    Contents <- ReadSome
    Wanted <- ReadSelf
    MaxVersion = 2
    MaxRoleVersion = 3
    Sent <- Several
SYMMETRY Symmetric
INVARIANTS
    AuthorityComesFromRoot
    AuthorityIsCurrent
    HeldRolesAreLive
PROPERTIES
    EditsWhatWasSeen
