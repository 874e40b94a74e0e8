\* One activity, one surface.
SPECIFICATION Spec
CONSTANTS
    MaxActivity = 1
    MaxPreview = 2
\* Everything may be over.
CHECK_DEADLOCK FALSE
INVARIANT NoPreviewWithoutSurface
