\* YUYV preview: stopping and progress.
SPECIFICATION FairSpec
CONSTANTS
    Buffers = {b1, b2, b3}
    NULL = NULL
    MAX_FRAME = 1
    FRAME_POOL_SZ = 2
    Mjpeg = FALSE
    MaxSeq = 2
    MaxPictures = 1
    MaxBad = 0
\* The preview stops for good.
CHECK_DEADLOCK FALSE
PROPERTY StopReturnsUnlessOverslept
PROPERTY QueueDrains
