\* Linux, where no receive times out once it has begun; handlers return
CONSTANTS
    c1 = c1
    c2 = c2
    c3 = c3
    NoSock = NoSock
    Conns <- OneConn
    MaxOps = 2
    Platform = "LINUX"
    Faults = {"HANDLER"}
    Calls = {"TRANSACTION", "SYNC"}
SPECIFICATION FairSpec
PROPERTIES
    CallReturns
    StopCompletes
