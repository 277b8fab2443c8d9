\* Two inputs of every kind, the detach among them; full trickle, so that the loop starts the gathering; fair threads.
SPECIFICATION FairSpec
CONSTANTS
    Tasks = {t1}
    Plug = plug
    Req = req
    Wd = wd
    Loop = loopthread
    NoThread = nothread
    FullTrickle = TRUE
    SetupErrors = {"gathering", "dtls"}
    Inputs = {"offer", "trickle", "hangup", "detach", "plugin_offer", "close_pc", "end_session"}
    MaxInputs = 2
INVARIANTS
    TypeOK
    HangupOnItsWay
    CandidatesOnTheirWay
    AgentsSound
    MediaInStep
PROPERTIES
    CleaningEnds
    DestroyedEnds
CHECK_DEADLOCK FALSE
