\* One account, one session, two handlers, four requests, two steps of the clock.
SPECIFICATION MfaSpec
CONSTANTS
    Caller = {w1, w2}
    NoCaller = NoCaller
    Session = {s1}
    NoSession = NoSession
    Factor = {f1, f2}
    Batch = {b1, b2, b3}
    CodesPerBatch = 1
    LastStep = 2
    MaxRequests = 4
SYMMETRY Symmetric
INVARIANTS
    CodesWorkOnce
    EnrolledHasFactor
PROPERTIES
    ActiveFactorIsNotReplaced
CHECK_DEADLOCK FALSE
