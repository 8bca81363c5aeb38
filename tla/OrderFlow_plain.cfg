\* TWS reports each change of an order once, and nothing else.
SPECIFICATION FairSpec
CONSTANTS
    MaxOrders = 2
    MaxUpdates = 3
    UnsetLong = UnsetLong
    NoOrder = NoOrder
    MaxNotes = 0
    NoteKinds <- NoNotes
    MayDisconnect = FALSE
    order_flow_lmt = 3
    Targets <- UpAndDown
    CallbackOrder <- AllOfThem
\* The strategy may send nothing more and every order may be settled.
CHECK_DEADLOCK FALSE
INVARIANTS
    TypeOK
PROPERTIES
    InflightResolves
    RetryServed
