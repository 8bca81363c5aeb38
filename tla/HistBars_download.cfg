\* Two symbols; two errors; saving may fail and TWS may be quick.
SPECIFICATION FairSpec
CONSTANTS
    sony = sony
    toyota = toyota
    Symbols <- BothSymbols
    Periods <- SomePeriods
    hist_window_sz = 2
    NoSymbol = NoSymbol
    MaxReqs = 3
    MaxErrors = 2
    SaveMayFail = TRUE
    MayOvertake = TRUE
\* run() returns, and nothing happens any more.
CHECK_DEADLOCK FALSE
INVARIANTS
    TypeOK
    CutCovers
    SavedComplete
    RemainingExact
    FinalStatus
PROPERTIES
    RunReturns
