CONSTANTS
    MsgSizes = {0, 1, 2, 4}
    BufferMax = 2
    MaxBytes = 8
SPECIFICATION SendSpec
INVARIANT StreamIntact
CHECK_DEADLOCK FALSE
