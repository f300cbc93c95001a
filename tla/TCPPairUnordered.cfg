SPECIFICATION Spec
CONSTANTS
    Base = 32
    MAX_PAYLOAD_SIZE = 2
    MAX_RETX_ATTEMPTS = 1
    MAX_WIN = 100
    LINGER = 1
    Client = Client
    Server = Server
    Isn <- MCIsn
    RtTimeout = 1
    MaxTransit = 4
    Worlds <- UnorderedWorlds
INVARIANTS StreamIntegrity AcksOnlySent CleanCloseDelivers SomebodyLingers
PROPERTY FollowsStandard
CHECK_DEADLOCK FALSE
