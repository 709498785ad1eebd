\* Every reserved value that fits, for every group with reserved macros.
SPECIFICATION Spec
INVARIANT TypeOK
INVARIANT LayoutConsistent
INVARIANT ReservedRoundTrip
\* The state is one input to the macros; nothing follows it.
CHECK_DEADLOCK FALSE
