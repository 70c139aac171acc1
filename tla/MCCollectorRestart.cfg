CONSTANTS
    None = None
    Keys = {k1}
    MaxTime = 4
    MaxPage = 1
    Step = 1
    PageLimit = 1
    MaxCandles = 2
    RunBound = 2
    Times <- MCTimes
    Pages <- MCPages
SPECIFICATION RestartSpec
INVARIANTS BreaksOnlyAtRestarts ReplayTellsBreaks
