\* A Windows client without Sync; handler and allocation may fail
CONSTANTS
    c1 = c1
    c2 = c2
    c3 = c3
    NoSock = NoSock
    Conns <- TwoConns
    MaxOps = 2
    Platform = "WINDOWS"
    Faults = {"ALLOC", "HANDLER"}
    Calls = {"TRANSACTION"}
SYMMETRY ConnSymmetry
SPECIFICATION Spec
INVARIANTS
    TypeOK
    ReplyIsOwn
    ExecsBounded
    ErrorIsLast
    IdleIsQuiet
    NoLeakedHandle
    SocketsAccounted
PROPERTIES
    CallsAreRemote
