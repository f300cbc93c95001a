SPECIFICATION FairSpec
CONSTANTS
    Base = 64
    MAX_PAYLOAD_SIZE = 2
    MAX_RETX_ATTEMPTS = 1
    MAX_WIN = 8
    LINGER = 1
    PipeRoom = 3
    Isn = 62
    PeerIsn = 5
    RtTimeout = 1
    Capacity = 3
    Worlds <- MCWorlds
INVARIANTS NoThrow
PROPERTIES SocketReliable ConnectReturns OwnerTold JoinReturns
CHECK_DEADLOCK FALSE
