\* The owner calls stop() while the stop event is on its way.
\* The two threads wait for each other: the property says so, not the deadlock.
SPECIFICATION FairSpec
CONSTANTS
    EventTypes = {order_data, timer}
    CbNames = {risk, portfolio}
    Stop = Stop
    StopSent = TRUE
    MaxEvents = 2
CHECK_DEADLOCK FALSE
PROPERTIES
    StopEventHonoured
