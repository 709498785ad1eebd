\* Teardown with buffers still queued.
CONSTANTS
    c1 = c1  c2 = c2  b1 = b1  b2 = b2  b3 = b3
    NoBuf = NoBuf
    Callers <- MCCallers
    Buffers <- MCBuffers
    Freeable <- MCFreeable
    NumPrio = 2
    TxQueueSize = 2
    MaxInits = 1
SPECIFICATION Spec
SYMMETRY MCSymmetry
INVARIANT TeardownReleasesQueued
CHECK_DEADLOCK FALSE
