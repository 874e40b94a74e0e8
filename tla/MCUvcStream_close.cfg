SPECIFICATION Spec
CONSTANTS
    Transfers = {t1, t2}
    MaxSeq = 2
SYMMETRY TransferSymmetry
INVARIANT ClosedIsQuiet
\* The stream is closed for good.
CHECK_DEADLOCK FALSE
