SPECIFICATION KeySpec
CONSTANTS
    r1 = r1  r2 = r2  r3 = r3  r4 = r4  b1 = b1  b2 = b2
    Request <- Requests
    NoRequest = NoRequest
    Body <- Bodies
    BodyOf <- Carries
    MaxFailures = 1
    MaxSweeps = 1
INVARIANTS
    NoFailureAfterTheWork
