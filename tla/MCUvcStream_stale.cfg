SPECIFICATION Spec
CONSTANTS
    Transfers = {t1, t2}
    MaxSeq = 3
SYMMETRY TransferSymmetry
INVARIANT CallbackFrameIsNew
\* The stream is closed for good.
CHECK_DEADLOCK FALSE
