\* Release of every owning inbound handle.
CONSTANTS
    h1 = h1  h2 = h2  h3 = h3
    NoBuf = NoBuf
    Handles <- MCHandles
    PrivIf <- MCPrivIf
    Owning <- MCOwning
    Valid <- MCValid
    NumPrio = 2
    RxQueueSize = 2
    MaxInits = 1
SPECIFICATION Spec
INVARIANT RxOwnershipConserved
\* The RX task blocks forever on its semaphore once no more handles arrive.
CHECK_DEADLOCK FALSE
