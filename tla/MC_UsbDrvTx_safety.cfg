\* Release safety, refinement of PriorityBank and progress of the write task,
\* across two init / deinit cycles with two callers and three handles.
CONSTANTS
    c1 = c1  c2 = c2  b1 = b1  b2 = b2  b3 = b3
    NoBuf = NoBuf
    Callers <- MCCallers
    Buffers <- MCBuffers
    Freeable <- MCFreeable
    NumPrio = 2
    TxQueueSize = 3
    MaxInits = 2
SPECIFICATION Spec
INVARIANT TypeOK
INVARIANT ReleaseAtMostOnce
INVARIANT SweepServesHeads
PROPERTY ImplementsPriorityBank
PROPERTY SignalledHeadIsTaken
\* The write task blocks forever on its semaphore once the callers are done.
CHECK_DEADLOCK FALSE
