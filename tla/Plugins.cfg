SPECIFICATION PluginsSpec
CONSTANTS
    h1 = h1
    h2 = h2
    r1 = r1
    r2 = r2
    u1 = u1
    u2 = u2
    a1 = a1
    id1 = id1
    None = None
INVARIANTS
    TypesOK
    PluginsSound
PROPERTIES
    Implements
    RecordingFinal
    RequestsSettled
\* The bounds on requests are reached.
CHECK_DEADLOCK FALSE
