\* A failure that the server reports, as the client sees it
CONSTANTS
    c1 = c1
    c2 = c2
    c3 = c3
    NoSock = NoSock
    Conns <- OneConn
    MaxOps = 2
    Platform = "WINDOWS"
    Faults = {"HANDLER"}
    Calls = {"TRANSACTION"}
SPECIFICATION Spec
INVARIANTS
    TrueMeansAnswered
