\* Two activities in one process, one camera.
SPECIFICATION Spec
CONSTANTS
    MaxAttach = 1
    MaxActivity = 2
    MaxHandle = 2
    MaxAsk = 1
    MaxInbox = 1
    MaxPosts = 1
    Files = {f1, f2}
    Workers = {w1, w2}
SYMMETRY SessionSymmetry
\* A crash ends the process.
CHECK_DEADLOCK FALSE
INVARIANT NoNullHandle
