\* Lost semaphore posts: the count saturates at MAX_PRIORITY_QUEUES.
CONSTANTS
    c1 = c1  c2 = c2  b1 = b1  b2 = b2  b3 = b3
    NoBuf = NoBuf
    Callers <- MCCallers
    Buffers <- MCBuffers
    Freeable <- MCFreeable
    NumPrio = 2
    TxQueueSize = 3
    MaxInits = 1
SPECIFICATION Spec
SYMMETRY MCSymmetry
CONSTRAINT SetUpSends
INVARIANT NoStrandedBuffer
CHECK_DEADLOCK FALSE
