\* Saving fails.
SPECIFICATION FairSpec
CONSTANTS
    sony = sony
    toyota = toyota
    Symbols <- BothSymbols
    Periods <- OnePeriod
    hist_window_sz = 2
    NoSymbol = NoSymbol
    MaxReqs = 2
    MaxErrors = 0
    SaveMayFail = TRUE
    MayOvertake = FALSE
\* run() returns, and nothing happens any more.
CHECK_DEADLOCK FALSE
PROPERTIES
    RunEnds
