SPECIFICATION Spec
CONSTANTS
    Loggers = {l1, l2}
    LogThread = log_thread
    Main = main_thread
    NULL = NULL
    max_size = 1
    Buffers = {b1, b2, b3, b4}
    Joiners = {l1}
    MaxLogs = 2
INVARIANT OnlyLargerIsCut
