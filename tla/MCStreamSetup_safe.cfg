\* Two workers and two previews on one handle
SPECIFICATION Spec
CONSTANTS
    Format = {0, 1}
    Frame = {0, 1, 2}
    Interval = {0, 1, 2}
    Payload = {0, 1}
    Supported <- MCSupported
    Asked <- MCAsked
    PointerBytes = 8
    Interfaces <- MCInterfaces
    MaxPacketSize = 2
    Workers = {w1, w2}
    MaxPreview = 2
SYMMETRY WorkerSymmetry
\* Workers and previews come to an end.
CHECK_DEADLOCK FALSE
INVARIANT TypeOK
INVARIANT ReadyMeansAgreed
INVARIANT StreamsAsAgreed
INVARIANT StreamsOnMatch
