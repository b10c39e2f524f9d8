\* Transactions and pings mixed; select() may fail, a handler never return
CONSTANTS
    c1 = c1
    c2 = c2
    c3 = c3
    NoSock = NoSock
    Conns <- OneConn
    MaxOps = 3
    Platform = "WINDOWS"
    Faults = {"SELECT", "HANDLER"}
    Calls = {"TRANSACTION", "SYNC"}
SPECIFICATION HungHandlerSpec
INVARIANTS
    ReplyIsOwn
    IdleIsQuiet
PROPERTIES
    CallReturns
