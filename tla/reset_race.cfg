SPECIFICATION Spec
CONSTANTS
    w1 = w1  w2 = w2  w3 = w3
    s1 = s1  s2 = s2
    l1 = l1  l2 = l2  l3 = l3
    Worker <- Workers2
    Session <- Sessions
    Link <- OneLink
    NoWorker = NoWorker
    NoSession = NoSession
    NoLink = NoLink
    MaxChanges = 2
    Serves <- LoginsAndResets
INVARIANTS
    NoSupersededSession
