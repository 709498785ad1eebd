\* The example's retry budget and the return of wifi_init_sta, over every
\* order of driver outcomes, link losses and event handling.
SPECIFICATION Spec
INVARIANT TypeOK
INVARIANT RetryBudget
PROPERTY InitReturns
\* After wifi_init_sta returns the example idles in app_main's delay loop.
CHECK_DEADLOCK FALSE
