SPECIFICATION FairSpec
CONSTANTS
    Ids = {i1}
    Sess = {s1}
    Hnds = {h1}
    Transports = {t1}
    Tasks = {}
    Req = Req
    Wd = Wd
    NoSess = NoSess
    NoHnd = NoHnd
    NoTransport = NoTransport
    NoId = NoId
    SessionTimeout = 0
    ReclaimTimeout = 0
    AttachFailures = {"plugin"}
    SlowRequests = FALSE
    LateRequests = FALSE
PROPERTIES EveryHandleFreed
