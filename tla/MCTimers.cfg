CONSTANTS
    MaxTimers = 4
    Res = 2
    Delays <- SomeDelays
    CallTimes <- OnceForever
    MaxNow = 6
    INT_MAX = 1
    MAX_EPOLL_TIMEOUT_MSEC = 1
SPECIFICATION Spec
INVARIANTS
    HeapIndexed
    OnTime
    NothingDueIsLeft
