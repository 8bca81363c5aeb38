\* The engine may be stopped by an event or by its owner.
SPECIFICATION FairSpec
CONSTANTS
    EventTypes = {order_data, timer}
    CbNames = {risk, portfolio}
    Stop = Stop
    StopSent = TRUE
    MaxEvents = 3
\* An owner that joins a thread that waits for the owner: see EventEngine_deadlock.
CHECK_DEADLOCK FALSE
INVARIANTS
    TypeOK
PROPERTIES
    TableStable
    StopReturns
    WaitReturns
