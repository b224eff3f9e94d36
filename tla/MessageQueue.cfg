SPECIFICATION FairSpec
CONSTANTS
    Producers = {p1, p2}
    LoopThread = loop_thread
    max_size = 2
    PipeSize = 2
    ReadSize = 1
    MaxMessages = 2
    MaxYields = 1
    SignalRoom = 2
    MaxSignals = 3
INVARIANTS NoMessageForgotten ReceivedInOrder
PROPERTIES Delivered SignalsHandled
CHECK_DEADLOCK FALSE
