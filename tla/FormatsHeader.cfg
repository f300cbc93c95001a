SPECIFICATION Spec
CONSTANTS
    Noise = {1, 2, 4, 8, 16, 32, 64, 128, 255}
    Padding = 2
INVARIANT HeaderErrorsReported
CHECK_DEADLOCK FALSE
