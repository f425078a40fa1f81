\* Frames of one shape, a pool four times as large as a frame needs.
CONSTANTS
    WLBLUR_FBO_POOL_SIZE = 16
    MaxPlanes = 2
    Frames <- OneFrame

SPECIFICATION Spec

INVARIANT
    PoolReused
