---------------------------- MODULE MC_UsbDrvRx ----------------------------
(* Model-checking instance of UsbDrvRx: three inbound handles, one of each *)
(* kind the RX task tells apart: a data handle, a private-control handle   *)
(* and one whose priv_buffer_handle is NULL but free_buf_handle is set.    *)
EXTENDS UsbDrvRx

CONSTANTS h1, h2, h3

MCHandles == {h1, h2, h3}
MCPrivIf  == {h2}
MCOwning  == {h1, h2, h3}
MCValid   == {h1, h2}
=============================================================================
