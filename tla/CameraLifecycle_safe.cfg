\* Three activities, three surfaces, the cable pulled at any moment, until uses
\* overlap.
SPECIFICATION FairSpec
CONSTANTS
    MaxActivity = 3
    MaxPreview = 3
CONSTRAINT UntilOverlapped
\* Everything may be over.
CHECK_DEADLOCK FALSE
INVARIANT TypeOK
INVARIANT StopClosesOwnStreamUnlessOverlapped
INVARIANT NoPreviewWithoutSurfaceUnlessOverlapped
INVARIANT BusyIsExplained
INVARIANT ConnectionsClosed
PROPERTY KeepsObjectContract
PROPERTY StopReturnsUnlessOverlapped
