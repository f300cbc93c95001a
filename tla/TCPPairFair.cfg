SPECIFICATION FairSpec
CONSTANTS
    Base = 32
    MAX_PAYLOAD_SIZE = 2
    MAX_RETX_ATTEMPTS = 2
    MAX_WIN = 100
    LINGER = 2
    Client = Client
    Server = Server
    Isn <- MCIsn
    RtTimeout = 1
    MaxTransit = 6
    Worlds <- FairWorlds
PROPERTIES StreamsReliable BothFinishCleanly OnlyStrandedHang
CHECK_DEADLOCK FALSE
