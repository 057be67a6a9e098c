CONSTANTS
    Clients = {c1, c2}
    NoClient = NoClient
    Ids = {0, 1, 2, 3, 4}
    Width = 16
    ServerIdOffset = 12
    ServerIds = {0, 15}
    SessionCounts = {1, 2, 3, 5}
    Timeout = 2
    NoDeadline = NoDeadline
SPECIFICATION Spec
CHECK_DEADLOCK FALSE
INVARIANT NoncePartitioned
PROPERTY ArmedIdleReleased
