SPECIFICATION AnySpec
CONSTANTS
    ETHERNET_BROADCAST = everybody
    CACHE_TIME = 2
    REQUEST_TIME = 1
    ADDRESS_BITS = 4
    MaxLost = 2
    LastStart = 1
    MaxTime = 7
    MaxCopy = 2
    BufferSize = 3
    KernelRoom = 1
    MaxTyped = 1
    MaxSent = 3
INVARIANTS InOrderOnce ReturnsComplete ThrowsOnlyOnFailure
PROPERTIES EventuallyAnswered CopiesReliably InputReachesPeer
CHECK_DEADLOCK FALSE
