SPECIFICATION Spec
CONSTANTS
    alice = alice
    bob = bob
    Handles = {alice, bob}
    Users = {"alice", "bob"}
    MaxRequests = 1
    MaxQueue = 1
    Starts <- BothRegistered
    None = None
PROPERTIES
    BothTold
\* The bounds on requests are reached.
CHECK_DEADLOCK FALSE
