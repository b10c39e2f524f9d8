\* The service may die, threads may be refused, handlers may call the server
CONSTANTS
    a1 = a1
    a2 = a2
    s1 = s1
    s2 = s2
    Apps <- TwoApps
    None = None
    Shells <- TwoShells
    MaxErrors = 1
    MaxBindFailures = 3
    Faults = {"ACCEPT", "THREAD"}
    HandlerCalls = {"SetHandler", "Start", "Stop"}
SPECIFICATION ReentryFairSpec
CHECK_DEADLOCK FALSE
INVARIANTS
    TypeOK
    ListNotShared
    StopLeavesNothing
    AssignOnlyAfterDeath
    ActiveIsServed
PROPERTIES
    StartReturns
    HandlerCallReturns
    StopReturnsOrCrossed
    OneServiceAtATime
