SPECIFICATION Spec
CONSTANTS
    Base = 64
    MAX_PAYLOAD_SIZE = 2
    MAX_RETX_ATTEMPTS = 1
    MAX_WIN = 8
    LINGER = 1
    PipeRoom = 1
    Isn = 62
    PeerIsn = 5
    RtTimeout = 1
    Capacity = 3
    Worlds <- ResetWorlds
INVARIANT NoThrow
CHECK_DEADLOCK FALSE
