\* One request of another protocol version.
CONSTANTS
    Fds <- MCFds
    MAX_CLIENTS = 1
    MAX_NODES_PER_CLIENT = 1
    IdSpace = 4
    MaxConnects = 2
    MaxCreates = 3
    Conns = {c1}
    Requests <- OtherVersion
    MaxSends = 1
    SockBuf = 1
    MAX_EVENTS = 32
    ContextReady = FALSE
    MaxPlanes = 1
    SystemFails = FALSE
    SignalsArrive = TRUE

SPECIFICATION FairSpec

PROPERTY
    EveryRequestAnswered

\* the daemon can be stopped
CHECK_DEADLOCK FALSE
