CONSTANTS
    MaxTimers = 6
    Res = 1
    Delays = {0, 1, 2}
    CallTimes <- Once
    MaxNow = 2
    INT_MAX = 2
    MAX_EPOLL_TIMEOUT_MSEC = 2
SPECIFICATION Spec
INVARIANT MinHeap
