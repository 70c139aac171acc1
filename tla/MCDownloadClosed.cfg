CONSTANTS
    None = None
    Garbled = Garbled
    Malformed = Malformed
    Step = 1
    MaxRows = 3
    MaxLimit = 2
    MaxTime = 2
    AppendBound = 3
    Records <- MCRecords
    Answers <- MCAnswers
    Requests <- MCRequests
    Skews <- MCSkews
SPECIFICATION DownloadSpec
INVARIANT ClosedIsTheExchanges
CHECK_DEADLOCK FALSE
