SPECIFICATION FairSpec
CONSTANTS
    Threads = {t1, t2}
    Cap = 2
    Owners = {"scoped", "leaked"}
    MaxWrites = 5
    MaxFlushes = 2
    NULL = NULL
INVARIANTS
    TypeOK
    FlushLagsByOne
PROPERTIES
    QueueSpec
    FlushReturns
    EndsDelivered
