SPECIFICATION Spec
CONSTANTS
    Clients = {c1, c2}
    Dgrams = {c2}
    Sess = {s1}
    Pf = Pf
    Req = Req
    Wd = Wd
    Ev = Ev
    NoClient = NoClient
    NoSess = NoSess
    NoThread = NoThread
    SessionTimeout = TRUE
    Reclaim = TRUE
    Pipelining = FALSE
    Closings = {"hungup"}
    Shutdown = FALSE
INVARIANTS TypeOK InstanceRefsEnough TablesSound NoLostWakeup
CHECK_DEADLOCK FALSE
