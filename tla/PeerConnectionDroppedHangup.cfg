\* A hangup between the answer and the first selected pair.
SPECIFICATION FairSpec
CONSTANTS
    Tasks = {t1}
    Plug = plug
    Req = req
    Wd = wd
    Loop = loopthread
    NoThread = nothread
    FullTrickle = TRUE
    SetupErrors = {}
    Inputs = {"offer", "trickle", "hangup", "detach", "plugin_offer", "close_pc", "end_session"}
    MaxInputs = 2
PROPERTY
    HangupHandled
CHECK_DEADLOCK FALSE
