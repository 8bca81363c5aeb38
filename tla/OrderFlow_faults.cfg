\* TWS repeats itself, warns and reports commissions late; the socket breaks.
SPECIFICATION RecordedSpec
CONSTANTS
    MaxOrders = 2
    MaxUpdates = 2
    UnsetLong = UnsetLong
    NoOrder = NoOrder
    MaxNotes = 1
    NoteKinds <- AnyNote
    MayDisconnect = TRUE
    order_flow_lmt = 3
    Targets <- LongShort
    CallbackOrder <- AlgoFirst
\* The strategy may send nothing more and every order may be settled.
CHECK_DEADLOCK FALSE
INVARIANTS
    PortfolioExact
    NoAnswerLost
    CancelOnce
    CancelledForARetry
    NoSecondOrder
    PositionFollows
PROPERTIES
    BooksGoForward
    AnswersGoForward
