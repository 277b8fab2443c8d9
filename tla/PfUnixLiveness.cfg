SPECIFICATION FairSpec
CONSTANTS
    Clients = {c1}
    Dgrams = {}
    Sess = {s1}
    Pf = Pf
    Req = Req
    Wd = Wd
    Ev = Ev
    NoClient = NoClient
    NoSess = NoSess
    NoThread = NoThread
    SessionTimeout = FALSE
    Reclaim = FALSE
    Pipelining = TRUE
    Closings = {"hungup", "half"}
    Shutdown = TRUE
INVARIANTS InstanceRefsExact SendsToValid
PROPERTIES MessagesWritten HungUpRemoved Stops
CHECK_DEADLOCK FALSE
