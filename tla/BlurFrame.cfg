\* Frames of three shapes over a small pool.
CONSTANTS
    WLBLUR_FBO_POOL_SIZE = 7
    MaxPlanes = 2
    Frames <- MCFrames

SPECIFICATION Spec

INVARIANTS
    TypeOK
    NoFeedback
    FrameBalanced
    NothingKept
    ErrorsAreReported

PROPERTY
    OutputsIntact
