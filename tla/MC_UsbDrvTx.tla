---------------------------- MODULE MC_UsbDrvTx ----------------------------
(* Model-checking instance of UsbDrvTx: two application tasks, three       *)
(* handles of which two carry a free function, two priorities.            *)
EXTENDS UsbDrvTx, TLC

CONSTANTS c1, c2, b1, b2, b3

MCCallers  == {c1, c2}
MCBuffers  == {b1, b2, b3}
MCFreeable == {b1, b2}

\* Callers are interchangeable; so are the two freeable handles.
MCSymmetry == Permutations(MCCallers) \cup Permutations(MCFreeable)

\* State constraint: esp_hosted_tx runs only while bus_init_internal has
\* finished and the semaphore exists. It removes the window in which a send
\* lands between the creation of the queues and of the semaphore, so that
\* the saturation of sem_to_slave_queue is what a run reports.
SetUpSends == \A c \in MCCallers : cpc[c] # "idle" => lpc = "idle" /\ sem_exists
=============================================================================
