CONSTANTS
    Addr = {a1, a2}
    NULL = NULL
    MaxDevices = 2
    MaxTimers = 1
    EpollAdd = {TRUE, FALSE}
    ClosesFailed = FALSE
    Calls = {"listen", "connect", "asyncConnect", "closeSocket", "sendMessage",
             "sendMessageThenClose", "setContext", "quit"}
SPECIFICATION Spec
SYMMETRY AddrSymmetry
INVARIANTS
    MapsAgree
    TimersAgree
    WriteInterest
    DispatchReachesLiveDevice
PROPERTY CallbackAboutOpenSocket
