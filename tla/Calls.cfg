SPECIFICATION CallsSpec
CONSTANTS
    h1 = h1
    h2 = h2
    h3 = h3
    u1 = u1
    u2 = u2
    u3 = u3
    None = None
    Handles = {h1, h2, h3}
    Scripts <- VideoScripts
    Limits = {1, 2}
    MaxQueue = 1
    MaxRooms = 2
INVARIANTS
    TypesOK
    CallsSound
    VideoRoomSound
PROPERTIES
    Implements
\* The bounds on requests are reached.
CHECK_DEADLOCK FALSE
