\* Two activities, two cameras one after the other, two workers.
SPECIFICATION Spec
CONSTANTS
    MaxAttach = 2
    MaxActivity = 2
    MaxHandle = 2
    MaxAsk = 1
    MaxInbox = 1
    MaxPosts = 1
    Files = {f1, f2}
    Workers = {w1, w2}
SYMMETRY SessionSymmetry
CONSTRAINT Explored
\* A crash ends the process.
CHECK_DEADLOCK FALSE
INVARIANT TypeOK
INVARIANT NativeUseIsSafe
INVARIANT ReadyMeansOpened
INVARIANT ConnectionsAreOpen
PROPERTY ClosesOnlyWhenGone
