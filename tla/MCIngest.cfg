CONSTANTS
    None = None
    Keys = {k1, k2}
    MaxTime = 10
    OffGrid = {3}
    Step = 2
    PageLimit = 2
    MaxCandles = 3
    Times <- MCTimes
    Pages <- MCPages
SPECIFICATION Spec
INVARIANTS TypeOK StoreIsContiguous DetectorMatchesStore CaughtUp RecoveryRestoresContinuity
    DoneIsWholeRange RequestsAreValid CursorStaysInRange HonestPageIsTaken
PROPERTIES CallReturns ImplementsCandleLog
