\* The daemon as it is started (no rendering context), one slot, clients that read;
\* the second client already finds the counters round.
CONSTANTS
    Fds <- MCFds
    MAX_CLIENTS = 1
    MAX_NODES_PER_CLIENT = 1
    IdSpace = 2
    MaxConnects = 2
    MaxCreates = 3
    Conns = {c1, c2}
    Requests <- GoodRequests
    MaxSends = 3
    SockBuf = 1
    MAX_EVENTS = 32
    ContextReady = FALSE
    MaxPlanes = 1
    SystemFails = FALSE
    SignalsArrive = TRUE

SPECIFICATION FairSpec

PROPERTIES
    EveryRequestAnswered
    DisconnectedForgotten
    SignalStops

\* the daemon can be stopped
CHECK_DEADLOCK FALSE
