\* Two slots and three descriptors; identifiers of four values, so that both
\* counters come round within a behaviour.
CONSTANTS
    Fds <- MCFds
    MAX_CLIENTS = 2
    MAX_NODES_PER_CLIENT = 2
    IdSpace = 4
    MaxConnects = 5
    MaxCreates = 5

SPECIFICATION Spec

INVARIANTS
    TypeOK
    NoOrphans
    WithinLimit
    OpenIsRegistered
    OneSlotPerConnection
    NodesAddressable

PROPERTIES
    RemovedByOwner
    ImplementsService

\* the bounded counters run out
CHECK_DEADLOCK FALSE
