SPECIFICATION FairSpec
CONSTANTS
    Ids = {i1}
    Sess = {s1}
    Hnds = {h1}
    Transports = {t1}
    Tasks = {}
    Req = Req
    Wd = Wd
    NoSess = NoSess
    NoHnd = NoHnd
    NoTransport = NoTransport
    NoId = NoId
    SessionTimeout = 2
    ReclaimTimeout = 1
    AttachFailures = {"plugin"}
    SlowRequests = TRUE
    LateRequests = TRUE
PROPERTIES AbandonedReaped DestroyedFreed
