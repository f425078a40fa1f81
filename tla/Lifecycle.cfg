\* A supervised daemon and one started by hand, on a path that fits and on one
\* that does not.
CONSTANTS
    Daemons = {"unit", "hand"}
    Supervised = {"unit"}
    Paths <- MCPaths
    SunPath <- MCSunPath
    Sockets = {1, 2, 3}
    NoPath = "none"
    NoSocket = 0
    MaxFaults = 2

SPECIFICATION FairSpec

INVARIANTS
    TypeOK
    OnlyOwnerConnects
    StaleSocketGoes
    AloneIsReachable

PROPERTIES
    CleanEnd
    Restarted
