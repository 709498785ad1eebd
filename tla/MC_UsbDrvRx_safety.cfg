\* The inbound bank refines PriorityBank and the RX task makes progress,
\* across two init / deinit cycles.
CONSTANTS
    h1 = h1  h2 = h2  h3 = h3
    NoBuf = NoBuf
    Handles <- MCHandles
    PrivIf <- MCPrivIf
    Owning <- MCOwning
    Valid <- MCValid
    NumPrio = 2
    RxQueueSize = 3
    MaxInits = 2
SPECIFICATION Spec
INVARIANT TypeOK
PROPERTY ImplementsPriorityBank
PROPERTY SignalledHeadDispatched
\* The RX task blocks forever on its semaphore once no more handles arrive.
CHECK_DEADLOCK FALSE
