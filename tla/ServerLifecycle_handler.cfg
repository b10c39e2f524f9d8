\* The handler is set while the server serves
CONSTANTS
    a1 = a1
    a2 = a2
    s1 = s1
    s2 = s2
    Apps <- TwoApps
    None = None
    Shells <- TwoShells
    MaxErrors = 1
    MaxBindFailures = 0
    Faults = {}
    HandlerCalls = {}
SPECIFICATION ReentrySpec
INVARIANTS
    HandlerAccessExclusive
