\* Two connections, any request.
CONSTANTS
    Fds <- MCFds
    MAX_CLIENTS = 2
    MAX_NODES_PER_CLIENT = 1
    IdSpace = 4
    MaxConnects = 2
    MaxCreates = 3
    Conns = {c1, c2}
    Requests <- AnyRequests
    MaxSends = 3
    SockBuf = 1
    MAX_EVENTS = 2
    ContextReady = TRUE
    MaxPlanes = 2
    SystemFails = TRUE
    SignalsArrive = FALSE

SYMMETRY ConnSymmetry

SPECIFICATION DaemonSpec

INVARIANTS
    DaemonTypeOK
    TablesMatchSockets
    EventsCurrent
    OnlyStraysStay
    HandlesValid
    AnswersInOrder

\* the daemon can be stopped
CHECK_DEADLOCK FALSE
