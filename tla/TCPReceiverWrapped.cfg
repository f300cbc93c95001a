SPECIFICATION Spec
CONSTANTS
    Base = 8
    Isn = 5
    Capacity = 3
    StreamLength = 9
    MaxPayload = 3
    MaxRead = 2
    Cuts = {0, 1, 4, 6, 8, 9, 10, 11}
INVARIANT MissingByteAccepted
