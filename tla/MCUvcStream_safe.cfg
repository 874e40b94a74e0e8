\* A stream's whole life, the cable pulled at any time.  No symmetry: two of
\* the properties are temporal.
SPECIFICATION FairSpec
CONSTANTS
    Transfers = {t1, t2, t3}
    MaxSeq = 3
INVARIANT TypeOK
INVARIANT StopWaitsForAll
INVARIANT NoSleepOnFrame
INVARIANT CallbackFrameIsGood
PROPERTY KeepsSourceContract
PROPERTY StopReturnsUnlessOrphan
PROPERTY DisconnectEndsUser
\* The stream is closed for good.
CHECK_DEADLOCK FALSE
