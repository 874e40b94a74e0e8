\* Both endpoints, cameras with and without EOF, all faults
SPECIFICATION Spec
CONSTANTS
    Parts = 3
    Size = 5
    MaxFrame = 4
    Faults = {"lost", "error_bit", "bogus"}
\* The camera sends MaxFrame frames.
CHECK_DEADLOCK FALSE
INVARIANT TypeOK
INVARIANT GoodFrameHasNoHole
INVARIANT FramesInOrder
INVARIANT WholeFrameIsPublished
