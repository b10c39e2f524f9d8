\* Partial transfers, deadlines, failing select() calls, handlers that throw,
\* and a silent server
CONSTANTS
    Platform = "WINDOWS"
    HdrSize = 2
    BufSize = 3
    Lens = {0, 4}
    MaxCalls = 2
    Delay = 2
    Faults = {"SELECT", "HANDLER"}
    Calls = {"TRANSACTION", "SYNC"}
SPECIFICATION SilentServerSpec
INVARIANTS
    TypeOK
    TxFailsOnlyWhenLeft
    HeldOnlyOutOfStep
PROPERTIES
    FramesAreWhole
    RxReturns
    CallReturns
    StopEndsShell
CHECK_DEADLOCK FALSE
