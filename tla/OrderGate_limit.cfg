\* Three algos under a limit of two active orders.
SPECIFICATION Spec
CONSTANTS
    MaxOrders = 3
    UnsetLong = UnsetLong
    NoOrder = NoOrder
    order_flow_lmt = 2
    Algos = {a1, a2, a3}
    NoAlgo = NoAlgo
    FirstId = 1
SYMMETRY AlgoSymmetry
\* Ids run out.
CHECK_DEADLOCK FALSE
INVARIANTS
    FlowLimited
