SPECIFICATION ServicesSpec
CONSTANTS
    w1 = w1
    w2 = w2
    n1 = n1
    h1 = h1
    c1 = c1
    p1 = p1
    p2 = p2
    q1 = q1
    s1 = s1
    None = None
    MaxPackets = 3
    MaxIncidents = 2
    TsMod = 16777216
    khz = 8
    StartSeq = 65533
    Substreams = {0, 2}
    Layers = {0, 1}
    Targets <- SomeTargets
INVARIANTS
    TypesOK
    LinesKept
    EventsKept
    StreamsSound
    PollsSound
    MediaCoherent
PROPERTIES
    NumbersFollow
    ServicesSettle
\* The bounds on lines, events, messages and packets are reached, and the server exits.
CHECK_DEADLOCK FALSE
