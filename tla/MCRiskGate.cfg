SPECIFICATION GateSpec
CONSTANTS
    Unit = 10
    Equities <- MCEquities
    Grosses = {0, 4, 7}
    Pnls <- MCPnls
    Drawdowns = {2, 3}
    Prices = {1, 2}
    Quantities = {1, 2}
    Limits <- MCLimits
INVARIANTS OpeningIsWithinLimits SplittingNeverHelps
PROPERTIES WorseNeverApproves
