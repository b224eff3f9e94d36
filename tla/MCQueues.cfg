CONSTANTS
    InitSize = 1
    ExpandSize = 2
    W = 6
    Sizes <- SmallSizes
    Widths <- OneTwo
    Byte <- Bits
    MaxReadable = 3

    Threads = {t1, t2, t3, t4}
    Items = {x, y}
    max_size = 2
    MaxLen = 3

    MsgSizes = {0, 1, 2, 4}
    BufferMax = 2
    MaxBytes = 8
SPECIFICATION PartsSpec
INVARIANTS
    CapacityIsRight
    TypeOK
    NoLostNotification
    BytesCounted
    CompleteMeansSent
PROPERTIES
    IntRoundTrip
    ImplementsQueue
    WaitersAreServed
    Drains
\* A connection that is closed, or has nothing to send, stops.
CHECK_DEADLOCK FALSE
