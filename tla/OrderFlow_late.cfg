\* A commission reported after its order was filled.
SPECIFICATION Spec
CONSTANTS
    MaxOrders = 3
    MaxUpdates = 3
    UnsetLong = UnsetLong
    NoOrder = NoOrder
    MaxNotes = 1
    NoteKinds <- Late
    MayDisconnect = FALSE
    order_flow_lmt = 3
    Targets <- UpAndDown
    CallbackOrder <- AlgoOnly
\* The strategy may send nothing more and every order may be settled.
CHECK_DEADLOCK FALSE
INVARIANTS
    NoInflightOrder
