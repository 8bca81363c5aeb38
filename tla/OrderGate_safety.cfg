\* Three algos send orders at once, more than one each.
SPECIFICATION FairSpec
CONSTANTS
    MaxOrders = 5
    UnsetLong = UnsetLong
    NoOrder = NoOrder
    order_flow_lmt = 4
    Algos = {a1, a2, a3}
    NoAlgo = NoAlgo
    FirstId = 2
\* Ids run out.
CHECK_DEADLOCK FALSE
INVARIANTS
    OwnOrder
    IdsValid
PROPERTIES
    StartReturns
