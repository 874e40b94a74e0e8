\* MJPEG preview: safety.
SPECIFICATION Spec
CONSTANTS
    Buffers = {b1, b2, b3, b4, b5, b6}
    NULL = NULL
    MAX_FRAME = 2
    FRAME_POOL_SZ = 2
    Mjpeg = TRUE
    MaxSeq = 3
    MaxPictures = 1
    MaxBad = 1
SYMMETRY BufferSymmetry
INVARIANT TypeOK
INVARIANT NoSharedBuffer
INVARIANT LeakBound
INVARIANT NoSleepOnFrame
INVARIANT StopQuiesces
PROPERTY KeepsPromises
\* The preview stops for good.
CHECK_DEADLOCK FALSE
