CONSTANTS
    Addr = {a1, a2}
    NULL = NULL
    MaxDevices = 2
    MaxTimers = 1
    EpollAdd = {TRUE}
    ClosesFailed = TRUE
    Calls = {"listen", "connect", "asyncConnect", "closeSocket", "sendMessage", "sendMessageThenClose"}
SPECIFICATION FairSpec
PROPERTIES
    ImplementsLifecycle
    ConnectResolves
    SendErrorTold
