\* Host and device mode: context, drivers and writers agree across open/close,
\* connect/disconnect, plug/unplug, the callbacks, reads, waits and
\* init/deinit, and every write returns. No SYMMETRY: WriteReturns is a
\* liveness property.
CONSTANTS
    w1 = w1  w2 = w2  None = None
    Writers <- MCWriters
    RxQueueSize = 2
    MaxInits = 2
SPECIFICATION Spec
INVARIANT TypeOK
INVARIANT TxMutualExclusion
PROPERTY WriteReturns
\* The model stops once MaxInits contexts were allocated and freed; the real
\* port just stays idle there.
CHECK_DEADLOCK FALSE
