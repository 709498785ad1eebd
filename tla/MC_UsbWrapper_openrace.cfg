\* A DEVICE_DISCONNECTED callback between cdc_acm_host_open and the
\* is_connected assignment of hosted_usb_host_open_device.
CONSTANTS
    w1 = w1  w2 = w2  None = None
    Writers <- MCWriters
    RxQueueSize = 2
    MaxInits = 2
SPECIFICATION Spec
SYMMETRY MCSymmetry
INVARIANT ConnectedHasHandle
\* The model stops once MaxInits contexts were allocated and freed.
CHECK_DEADLOCK FALSE
