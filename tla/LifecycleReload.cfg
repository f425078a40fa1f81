\* One daemon, whose configuration is reloaded.
CONSTANTS
    Daemons = {"unit"}
    Supervised = {"unit"}
    Paths <- MCPaths
    SunPath <- MCSunPath
    Sockets = {1, 2, 3}
    NoPath = "none"
    NoSocket = 0
    MaxFaults = 0

SPECIFICATION Spec

PROPERTY
    CleanupOnExit
