SPECIFICATION FairSpec
CONSTANTS
    Clients = {c1}
    Dgrams = {}
    Sess = {s1}
    Pf = Pf
    Req = Req
    Wd = Wd
    Ev = Ev
    NoClient = NoClient
    NoSess = NoSess
    NoThread = NoThread
    SessionTimeout = TRUE
    Reclaim = FALSE
    Pipelining = TRUE
    Closings = {"hungup"}
    Shutdown = FALSE
PROPERTIES HungUpRemoved
CHECK_DEADLOCK FALSE
