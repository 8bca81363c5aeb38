\* Ticks and orders, two starts, failing inserts and expired waits.
SPECIFICATION FairSpec
CONSTANTS
    Other = Other
    MaxEvents = 3
    MaxDocs = 4
    MaxStarts = 2
\* The recorder may be stopped for good.
CHECK_DEADLOCK FALSE
INVARIANTS
    TypeOK
    SafeOnceFed
PROPERTIES
    ImplementsJournal
    EventuallyTried
    StopReturns
