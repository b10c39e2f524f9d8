\* select() fails while a payload is awaited
CONSTANTS
    c1 = c1
    c2 = c2
    c3 = c3
    NoSock = NoSock
    Conns <- OneConn
    MaxOps = 2
    Platform = "WINDOWS"
    Faults = {"SELECT"}
    Calls = {"TRANSACTION"}
SPECIFICATION Spec
INVARIANTS
    TrueMeansWhole
