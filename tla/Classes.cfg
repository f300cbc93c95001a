SPECIFICATION AnySpec
CONSTANTS
    Byte = {0, 1}
    Capacity = 2
    MaxWrite = 3
    MaxRead = 3
    MaxBytes = 5
    Base = 16
    MaxCheckpoint = 50
    RecvCapacity = 4
    RecvLength = 7
    MaxPush = 4
    MaxRecv = 3
    Overrun = 3
    MAX_PAYLOAD_SIZE = 2
    Isn = 14
    SendCapacity = 3
    RtTimeout = 2
    StreamLength = 4
    MaxWindow = 4
    MaxTick = 2
    MaxRetx = 2
    AckBeyond = 2
INVARIANTS UnwrapIsClosest ReassemblySound CapacityUsable ReceivesInOrder
    TimerSound OutstandingIsTail WindowFilled
PROPERTIES ImplementsReliableStream EventuallyComplete EdgesAdvance WindowRespected
CHECK_DEADLOCK FALSE
