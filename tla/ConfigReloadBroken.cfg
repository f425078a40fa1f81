\* One edit, one signal: the file breaks, goes, or gets values out of range.
CONSTANTS
    DefaultPaths <- TwoPaths
    GivenPath = "none"
    Contents <- MCContents
    Names <- MCNames
    MemoryFails = FALSE
    Losable <- MCLosable
    PresetNames <- MCPresetNames
    Buckets <- MCBuckets
    hash_preset_name <- MCHash
    Stored <- MCStored
    Params <- MCParams
    ContextReady = TRUE
    MaxEdits = 1
    MaxSignals = 1

SPECIFICATION Spec

PROPERTY
    OldConfigKept

\* the daemon can be stopped
CHECK_DEADLOCK FALSE
