\* A file named by --config, two default files, an edit, two signals.
CONSTANTS
    DefaultPaths <- TwoPaths
    GivenPath = "given"
    Contents <- MCContents
    Names <- MCNames
    MemoryFails = TRUE
    Losable <- MCLosable
    PresetNames <- MCPresetNames
    Buckets <- MCBuckets
    hash_preset_name <- MCHash
    Stored <- MCStored
    Params <- MCParams
    ContextReady = TRUE
    MaxEdits = 1
    MaxSignals = 2

SPECIFICATION FairSpec

INVARIANTS
    OneConfig
    UsedInRange
    NoSignalLost
    ReloadIsRestart
    NamesResolved

PROPERTY
    SignalActedUpon

\* the daemon can be stopped
CHECK_DEADLOCK FALSE
