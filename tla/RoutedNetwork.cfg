SPECIFICATION FairSpec
CONSTANTS
    ETHERNET_BROADCAST = "everybody"
    CACHE_TIME = 0
    REQUEST_TIME = 0
    ADDRESS_BITS = 3
    Host = {"a", "b", "c"}
    HostIP <- MCHostIP
    HostEthernet <- MCHostEthernet
    Gateway <- MCGateway
    RouterIP <- MCRouterIP
    RouterEthernet <- MCRouterEthernet
    Link <- MCLink
    Rules <- MCRules
    Destination = {3, 5, 7}
    TimeToLive = {1, 2}
    MaxDatagrams = 2
    MaxTime = 1
INVARIANT RightReceiver
PROPERTY EventuallyReceived
CHECK_DEADLOCK FALSE
