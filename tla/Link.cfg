SPECIFICATION AnySpec
CONSTANTS
    ETHERNET_BROADCAST = Everybody
    CACHE_TIME = 2
    REQUEST_TIME = 1
    EthernetAddress = {E0, E1, E2}
    IP = {A, B}
    MyEthernet = E0
    MyIP = Me
    MaxDatagrams = 3
    MaxTick = 2
    MaxTime = 4
    Callers = {"a", "b", "c"}
    Server = "server"
    Home <- MCHome
    AnyIP = "any"
    MaxInFlight = 2
    Noise = {1, 2, 4, 8, 16, 32, 64, 128, 255}
    Padding = 2
SYMMETRY Symmetry
INVARIANTS RequestIffWaiting InOrderPerHop MappingsFresh OnePeer Conversation
    RoundTrip 
PROPERTY RequestsSpaced
CHECK_DEADLOCK FALSE
