SPECIFICATION Spec
CONSTANTS
    Ids = {i1}
    Sess = {s1, s2}
    Hnds = {h1}
    Transports = {t1}
    Tasks = {k1}
    Req = Req
    Wd = Wd
    NoSess = NoSess
    NoHnd = NoHnd
    NoTransport = NoTransport
    NoId = NoId
    SessionTimeout = 1
    ReclaimTimeout = 0
    AttachFailures = {"plugin", "thread"}
    SlowRequests = TRUE
    LateRequests = TRUE
SYMMETRY Symmetry
INVARIANTS TypeOK RefsExact NoUseAfterFree TableSound NoLostSession
