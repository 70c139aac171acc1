CONSTANTS
    None = None
    Keys = {k1}
    MaxTime = 1
    MaxPage = 1
    Step = 1
    PageLimit = 1
    MaxCandles = 2
    Times <- MCTimes
    Pages <- MCPages
    Frames <- MCFrames
    Capacity = 2
    Initial = 1
    Maximum = 1
    AttemptBound = 1
SPECIFICATION ConnectingSpec
PROPERTIES RunsUntilShutdown

