\* A ping answered too late
CONSTANTS
    c1 = c1
    c2 = c2
    c3 = c3
    NoSock = NoSock
    Conns <- OneConn
    MaxOps = 2
    Platform = "WINDOWS"
    Faults = {}
    Calls = {"TRANSACTION", "SYNC"}
SPECIFICATION Spec
INVARIANTS
    AnswerIsNotStale
