\* hosted_wait_usb_rx_data, a callback or a write using a context, semaphore
\* or device after hosted_usb_deinit freed or left it.
CONSTANTS
    w1 = w1  w2 = w2  None = None
    Writers <- MCWriters
    RxQueueSize = 2
    MaxInits = 2
SPECIFICATION Spec
SYMMETRY MCSymmetry
INVARIANT NoUseAfterFree
\* The model stops once MaxInits contexts were allocated and freed.
CHECK_DEADLOCK FALSE
