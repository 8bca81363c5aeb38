\* The clock passes a full minute; a fill, trades and quotes in every order.
SPECIFICATION Spec
CONSTANTS
    engine = engine
    other = other
    index = index
    future = future
    Algos = {engine, other}
    Symbols = {index, future}
    Held <- HeldByAlgo
    mktd_mapping <- FutureByIndex
    mkt_data_symbol = index
    Subscriptions <- SomeSubscriptions
    NoTick = NoTick
    NoEvent = NoEvent
    UnsetDouble = UnsetDouble
    StartTime = 58
    MaxTime = 60
    MaxTrades = 2
    MaxQuotes = 1
    MaxFills = 1
    MaxReplays = 1
\* The clock stops at its bound.
CHECK_DEADLOCK FALSE
INVARIANTS
    TypeOK
    PriceExact
    PublishedCurrent
    TotalIsSum
    PnlCurrent
