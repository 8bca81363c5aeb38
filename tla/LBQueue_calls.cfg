\* Three threads make any calls.  No symmetry: one property is a liveness property.
SPECIFICATION FairSpec
CONSTANTS
    Threads = {t1, t2, t3}
    Items = {a, b}
    NoItem = NoItem
    Nobody = Nobody
    MaxPushes = 2
INVARIANTS
    TypeOK
    Fifo
    NoLostWakeup
PROPERTIES
    ImplementsFifo
    NoStrandedItem
