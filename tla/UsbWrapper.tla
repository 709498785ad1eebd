----------------------------- MODULE UsbWrapper -----------------------------
(***************************************************************************)
(* The FreeRTOS USB port layer of                                          *)
(* src/host/port/esp/freertos/src/usb_wrapper.c: the g_usb_ctx context,   *)
(* its init and deinit, opening and closing a CDC-ACM device (host mode),  *)
(* connecting (device mode), the CDC-ACM and TinyUSB callbacks, the        *)
(* mutex-protected hosted_usb_write, hosted_usb_read and                   *)
(* hosted_wait_usb_rx_data.                                                *)
(*                                                                         *)
(* The ESP-IDF drivers are modelled by their contract only: drv records    *)
(* which of them are installed, whether the one attached device is open    *)
(* in the CDC-ACM driver and which context its callbacks were given.       *)
(* A context is identified by its generation: gen counts allocations, and  *)
(* a pointer to an older generation is a pointer to freed memory.         *)
(***************************************************************************)
EXTENDS Naturals, FiniteSets

CONSTANTS
    Writers,        \* tasks calling hosted_usb_write
    RxQueueSize,    \* config->rx_queue_size
    MaxInits,       \* bound on hosted_usb_init calls
    None

ASSUME /\ Writers # {} /\ None \notin Writers
       /\ RxQueueSize \in Nat \ {0}
       /\ MaxInits \in Nat \ {0}

CdcEvents == {"ERROR", "DISCONNECTED", "SERIAL_STATE", "NETWORK_CONNECTION"}

VARIABLES
    Mode,           \* "host" or "device": config->host_mode / device_mode
    live,           \* g_usb_ctx # NULL
    gen,            \* generation of the current (or last) context
    is_connected,
    cdc_acm_handle, \* the context holds the open device's handle
    rx_queue,       \* number of items in the rx queue
    rx_semaphore,   \* binary semaphore: 0 or 1
    tx_holder,      \* task holding tx_semaphore, or None
    drv,            \* the drivers: see DrvType
    wpc, wgen,      \* each writer's position in hosted_usb_write, context it uses
    opc, ogen,      \* hosted_usb_host_open_device in progress, context it uses
    rdpc,           \* the reading task in hosted_usb_read: "idle" or "rx"
    wtpc, wtgen,    \* the task in hosted_wait_usb_rx_data, semaphore it waits on
    freedAccess     \* ghost: freed context, semaphore or device used

ctxVars == <<live, gen, is_connected, cdc_acm_handle, rx_queue, rx_semaphore, tx_holder>>
rxVars  == <<rdpc, wtpc, wtgen>>
vars == <<Mode, ctxVars, drv, wpc, wgen, opc, ogen, rxVars, freedAccess>>

DrvType ==
    [ host   : BOOLEAN,   \* usb_host_install done, not uninstalled
      client : BOOLEAN,   \* the wrapper's usb_host_client is registered
      cdc    : BOOLEAN,   \* cdc_acm_host_install done, not uninstalled
      tusb   : BOOLEAN,   \* tinyusb_driver_install done
      attached : BOOLEAN, \* a device is plugged in
      open   : BOOLEAN,   \* the device is open in the CDC-ACM driver
      gone   : BOOLEAN,   \* the open device was unplugged, event pending
      arg    : Nat ]      \* generation of the context given as user_arg

-----------------------------------------------------------------------------
(* hosted_usb_deinit's driver clean-up in host mode, given whether the     *)
(* context holds a device handle, registered its client and installed the  *)
(* host library. cdc_acm_host_uninstall is called only when the handle is  *)
(* NULL and refuses while a device is open; usb_host_uninstall refuses    *)
(* while a client (the CDC-ACM driver's or ours) is registered.            *)
HostCleanup(d, handle, client, installed) ==
    LET cdc == IF ~handle /\ d.cdc /\ ~d.open THEN FALSE ELSE d.cdc
        cl  == IF client THEN FALSE ELSE d.client
    IN  [d EXCEPT !.cdc = cdc, !.client = cl,
                  !.host = IF installed /\ ~cdc /\ ~cl THEN FALSE ELSE d.host]

(* hosted_usb_init. The context is allocated, then in host mode the host   *)
(* library, its task, our client and the CDC-ACM driver are installed, in *)
(* device mode TinyUSB and its CDC-ACM port. A step that fails jumps to    *)
(* cleanup, which runs hosted_usb_deinit on the partial context (never     *)
(* connected, no device handle) and returns NULL. step is the first step   *)
(* that fails: an allocation, or an install the driver refuses because it  *)
(* is installed already.                                                   *)
HostInitSteps == <<"alloc", "host", "client", "cdc", "ok">>

\* The first install step the drivers refuse, or "ok".
HostRefused ==
    IF drv.host THEN "host" ELSE IF drv.cdc THEN "cdc" ELSE "ok"

hosted_usb_init ==
    /\ ~live
    /\ gen < MaxInits
    /\ gen' = gen + 1
    /\ is_connected' = FALSE /\ cdc_acm_handle' = FALSE
    /\ rx_queue' = 0 /\ rx_semaphore' = 0 /\ tx_holder' = None
    /\ \/ /\ Mode = "host"
          /\ \E fail \in {"alloc", HostRefused} :
               LET failAt == CHOOSE i \in 1..5 : HostInitSteps[i] = fail
                   done(s) == \E i \in 1..(failAt - 1) : HostInitSteps[i] = s
                   d == [drv EXCEPT !.host = @ \/ done("host"),
                                    !.client = @ \/ done("client"),
                                    !.cdc = @ \/ done("cdc")]
               IN  IF fail = "ok"
                   THEN live' = TRUE /\ drv' = d
                   ELSE live' = FALSE /\ drv' = HostCleanup(d, FALSE, done("client"), done("host"))
       \/ /\ Mode = "device"
          /\ \E fail \in {"alloc", IF drv.tusb THEN "tusb" ELSE "ok"} :
               /\ live' = (fail = "ok")
               /\ drv' = [drv EXCEPT !.tusb = @ \/ fail = "ok"]
    /\ UNCHANGED <<wpc, wgen, opc, ogen, rxVars, freedAccess>>

(* hosted_usb_deinit(g_usb_ctx): a connected context is closed or          *)
(* disconnected first; in device mode nothing uninstalls TinyUSB. Then the *)
(* queue and both semaphores are deleted and the context is freed, whoever *)
(* is still using them.                                                    *)
hosted_usb_deinit ==
    /\ live
    /\ LET closes == is_connected /\ Mode = "host" /\ cdc_acm_handle
           d == IF closes THEN [drv EXCEPT !.open = FALSE, !.gone = FALSE] ELSE drv
       IN  drv' = IF Mode = "host"
                  THEN HostCleanup(d, cdc_acm_handle /\ ~closes, TRUE, TRUE)
                  ELSE drv
    /\ live' = FALSE
    /\ is_connected' = FALSE /\ cdc_acm_handle' = FALSE
    /\ rx_queue' = 0 /\ rx_semaphore' = 0 /\ tx_holder' = None
    /\ UNCHANGED <<gen, wpc, wgen, opc, ogen, rxVars, freedAccess>>

-----------------------------------------------------------------------------
(* hosted_usb_host_open_device, first step: cdc_acm_host_open succeeds   *)
(* when the device is plugged in and not open yet (otherwise it fails      *)
(* after its timeout and the call returns -1); it stores the handle in     *)
(* the context and gives the driver this context as user_arg, so from now  *)
(* on the driver's callbacks run on it.                                    *)
hosted_usb_host_open_device ==
    /\ opc = "idle"
    /\ live /\ Mode = "host"
    /\ drv.cdc /\ drv.attached /\ ~drv.open
    /\ drv' = [drv EXCEPT !.open = TRUE, !.gone = FALSE, !.arg = gen]
    /\ cdc_acm_handle' = TRUE
    /\ opc' = "rx" /\ ogen' = gen
    /\ UNCHANGED <<live, gen, is_connected, rx_queue, rx_semaphore, tx_holder,
                   wpc, wgen, rxVars, freedAccess>>

(* hosted_usb_host_open_device, second step: after                         *)
(* cdc_acm_host_data_rx_blocking returns, is_connected is set on the       *)
(* context, whatever the callbacks did to it in the meantime.              *)
hosted_usb_host_open_device_connected ==
    /\ opc = "rx"
    /\ IF live /\ ogen = gen
       THEN is_connected' = TRUE /\ UNCHANGED freedAccess
       ELSE freedAccess' = TRUE /\ UNCHANGED is_connected
    /\ opc' = "idle"
    /\ UNCHANGED <<live, gen, cdc_acm_handle, rx_queue, rx_semaphore, tx_holder,
                   drv, wpc, wgen, ogen, rxVars>>

(* hosted_usb_host_close_device: closes the handle if there is one, then   *)
(* clears is_connected.                                                    *)
hosted_usb_host_close_device ==
    /\ live /\ Mode = "host"
    /\ drv' = IF cdc_acm_handle THEN [drv EXCEPT !.open = FALSE, !.gone = FALSE] ELSE drv
    /\ cdc_acm_handle' = FALSE
    /\ is_connected' = FALSE
    /\ UNCHANGED <<live, gen, rx_queue, rx_semaphore, tx_holder, wpc, wgen, opc, ogen, rxVars, freedAccess>>

hosted_usb_device_connect ==
    /\ live /\ Mode = "device"
    /\ is_connected' = TRUE
    /\ UNCHANGED <<live, gen, cdc_acm_handle, rx_queue, rx_semaphore, tx_holder,
                   drv, wpc, wgen, opc, ogen, rxVars, freedAccess>>

hosted_usb_device_disconnect ==
    /\ live /\ Mode = "device"
    /\ is_connected' = FALSE
    /\ UNCHANGED <<live, gen, cdc_acm_handle, rx_queue, rx_semaphore, tx_holder,
                   drv, wpc, wgen, opc, ogen, rxVars, freedAccess>>

-----------------------------------------------------------------------------
(* The bus: a device is plugged in or out. Unplugging an open device makes *)
(* the CDC-ACM driver raise DEVICE_DISCONNECTED.                           *)
DevicePlug ==
    /\ Mode = "host" /\ ~drv.attached /\ ~drv.open
    /\ drv' = [drv EXCEPT !.attached = TRUE]
    /\ UNCHANGED <<ctxVars, wpc, wgen, opc, ogen, rxVars, freedAccess>>

DeviceUnplug ==
    /\ Mode = "host" /\ drv.attached
    /\ drv' = [drv EXCEPT !.attached = FALSE, !.gone = drv.open]
    /\ UNCHANGED <<ctxVars, wpc, wgen, opc, ogen, rxVars, freedAccess>>

\* The user_arg of the open device no longer points to a live context.
ArgFreed == ~live \/ drv.arg # gen

(* cdc_acm_host_event_callback, run by the CDC-ACM driver for the open     *)
(* device on its user_arg. ERROR clears is_connected; DISCONNECTED clears  *)
(* is_connected and the handle without closing the device.                 *)
cdc_acm_host_event_callback(ev) ==
    /\ drv.open
    /\ IF ev = "DISCONNECTED" THEN drv.gone ELSE drv.attached
    /\ drv' = IF ev = "DISCONNECTED" THEN [drv EXCEPT !.gone = FALSE] ELSE drv
    /\ IF ArgFreed
       THEN /\ freedAccess' = (ev \in {"ERROR", "DISCONNECTED"} \/ freedAccess)
            /\ UNCHANGED <<is_connected, cdc_acm_handle>>
       ELSE /\ is_connected' = IF ev \in {"ERROR", "DISCONNECTED"} THEN FALSE ELSE is_connected
            /\ cdc_acm_handle' = IF ev = "DISCONNECTED" THEN FALSE ELSE cdc_acm_handle
            /\ UNCHANGED freedAccess
    /\ UNCHANGED <<live, gen, rx_queue, rx_semaphore, tx_holder, wpc, wgen, opc, ogen, rxVars>>

(* Received data goes to the rx queue if there is room (then the rx        *)
(* semaphore is given) and is dropped otherwise.                          *)
\* Mutant: rx_semaphore created as a counting semaphore, given once per item.
RxEnqueue_counting ==
    /\ rx_queue' = IF rx_queue < RxQueueSize THEN rx_queue + 1 ELSE rx_queue
    /\ rx_semaphore' = IF rx_queue < RxQueueSize THEN rx_semaphore + 1 ELSE rx_semaphore

RxEnqueue ==
    /\ rx_queue' = IF rx_queue < RxQueueSize THEN rx_queue + 1 ELSE rx_queue
    /\ rx_semaphore' = IF rx_queue < RxQueueSize THEN 1 ELSE rx_semaphore

cdc_acm_host_data_callback ==
    /\ drv.open /\ drv.attached
    /\ IF ArgFreed
       THEN freedAccess' = TRUE /\ UNCHANGED <<rx_queue, rx_semaphore>>
       ELSE RxEnqueue /\ UNCHANGED freedAccess
    /\ UNCHANGED <<live, gen, is_connected, cdc_acm_handle, tx_holder, drv, wpc, wgen, opc, ogen, rxVars>>

(* TinyUSB callbacks read the global g_usb_ctx and return when it is NULL. *)
tinyusb_cdc_rx_callback ==
    /\ Mode = "device" /\ live /\ drv.tusb
    /\ RxEnqueue
    /\ UNCHANGED <<live, gen, is_connected, cdc_acm_handle, tx_holder, drv,
                   wpc, wgen, opc, ogen, rxVars, freedAccess>>

tinyusb_cdc_line_state_changed_callback(dtr) ==
    /\ Mode = "device" /\ live /\ drv.tusb
    /\ is_connected' = dtr
    /\ UNCHANGED <<live, gen, cdc_acm_handle, rx_queue, rx_semaphore, tx_holder,
                   drv, wpc, wgen, opc, ogen, rxVars, freedAccess>>

(* hosted_wait_usb_rx_data(ticks_to_wait) reads the global g_usb_ctx     *)
(* three times: to test it and is_connected, to take its rx_semaphore, and *)
(* to count its rx_queue, with no lock against hosted_usb_deinit. NULL at  *)
(* the second or third read is a NULL dereference.                         *)
SetWait(pc) == wtpc' = pc /\ UNCHANGED <<rdpc, wtgen>>

hosted_wait_usb_rx_data_check ==
    /\ wtpc = "idle" /\ live /\ is_connected
    /\ SetWait("take")
    /\ UNCHANGED <<ctxVars, Mode, drv, wpc, wgen, opc, ogen, freedAccess>>

hosted_wait_usb_rx_data_take ==
    /\ wtpc = "take"
    /\ IF live
       THEN wtpc' = "blocked" /\ wtgen' = gen /\ UNCHANGED freedAccess
       ELSE wtpc' = "idle" /\ freedAccess' = TRUE /\ UNCHANGED wtgen
    /\ UNCHANGED <<ctxVars, Mode, drv, wpc, wgen, opc, ogen, rdpc>>

(* Blocked in xSemaphoreTake: the binary semaphore is taken once given, or *)
(* the wait times out and 0 is returned. A semaphore hosted_usb_deinit     *)
(* deleted under the blocked task is a freed object the task wakes on.     *)
hosted_wait_usb_rx_data_wake ==
    /\ wtpc = "blocked"
    /\ \/ /\ live /\ wtgen = gen /\ rx_semaphore = 1
          /\ rx_semaphore' = 0
          /\ SetWait("count")
          /\ UNCHANGED freedAccess
       \/ /\ live /\ wtgen = gen
          /\ SetWait("idle")
          /\ UNCHANGED <<rx_semaphore, freedAccess>>
       \/ /\ ~live \/ wtgen # gen
          /\ freedAccess' = TRUE
          /\ SetWait("idle")
          /\ UNCHANGED rx_semaphore
    /\ UNCHANGED <<live, gen, is_connected, cdc_acm_handle, rx_queue, tx_holder,
                   Mode, drv, wpc, wgen, opc, ogen>>

\* uxQueueMessagesWaiting(g_usb_ctx->rx_queue): nothing is dequeued.
hosted_wait_usb_rx_data_count ==
    /\ wtpc = "count"
    /\ freedAccess' = (freedAccess \/ ~live)
    /\ SetWait("idle")
    /\ UNCHANGED <<ctxVars, Mode, drv, wpc, wgen, opc, ogen>>

(* hosted_usb_read(ctx, ..) in host mode: the handle is read when the      *)
(* blocking receive starts (up to 100 ms) and the device must still be     *)
(* open when it ends; no lock is taken. A read in device mode, or one that *)
(* fails its is_connected test, is one TinyUSB call or a return and        *)
(* changes no state.                                                       *)
hosted_usb_read_check ==
    /\ rdpc = "idle" /\ live /\ is_connected
    /\ Mode = "host" /\ cdc_acm_handle
    /\ rdpc' = "rx"
    /\ UNCHANGED <<ctxVars, Mode, drv, wpc, wgen, opc, ogen, wtpc, wtgen, freedAccess>>

hosted_usb_read_end ==
    /\ rdpc = "rx"
    /\ freedAccess' = (freedAccess \/ ~drv.open)
    /\ rdpc' = "idle"
    /\ UNCHANGED <<ctxVars, Mode, drv, wpc, wgen, opc, ogen, wtpc, wtgen>>

-----------------------------------------------------------------------------
(* hosted_usb_write(ctx, ..) by writer w, on the context pointer it holds. *)
(* "check": is_connected tested; "take": xSemaphoreTake(tx_semaphore,      *)
(* 1000 ms) which may time out while another writer holds it; "xfer": the  *)
(* blocking transfer in progress; "give": xSemaphoreGive.                  *)
Used(w) == IF ~live \/ wgen[w] # gen THEN TRUE ELSE freedAccess

SetPc(w, pc) == wpc' = [wpc EXCEPT ![w] = pc]

hosted_usb_write_check(w) ==
    /\ wpc[w] = "idle" /\ live /\ is_connected
    /\ SetPc(w, "take")
    /\ wgen' = [wgen EXCEPT ![w] = gen]
    /\ UNCHANGED <<ctxVars, drv, opc, ogen, rxVars, freedAccess>>

\* Mutant: the result of xSemaphoreTake is not checked; a timed-out writer
\* goes on to transfer without the mutex.
hosted_usb_write_take_ignore_timeout(w) ==
    /\ wpc[w] = "take"
    /\ freedAccess' = Used(w)
    /\ tx_holder' = IF tx_holder = None THEN w ELSE tx_holder
    /\ SetPc(w, "begin")
    /\ UNCHANGED <<live, gen, is_connected, cdc_acm_handle, rx_queue, rx_semaphore,
                   drv, wgen, opc, ogen, rxVars>>

\* Mutant: the mutex is taken with portMAX_DELAY instead of 1000 ms.
hosted_usb_write_take_forever(w) ==
    /\ wpc[w] = "take"
    /\ tx_holder = None /\ live /\ wgen[w] = gen
    /\ freedAccess' = Used(w)
    /\ tx_holder' = w
    /\ SetPc(w, "begin")
    /\ UNCHANGED <<live, gen, is_connected, cdc_acm_handle, rx_queue, rx_semaphore,
                   drv, wgen, opc, ogen, rxVars>>

hosted_usb_write_take(w) ==
    /\ wpc[w] = "take"
    /\ freedAccess' = Used(w)
    /\ \/ /\ tx_holder = None /\ live /\ wgen[w] = gen
          /\ tx_holder' = w
          /\ SetPc(w, "begin")
       \/ /\ tx_holder # None \/ ~live \/ wgen[w] # gen
          /\ SetPc(w, "idle")
          /\ UNCHANGED tx_holder
    /\ UNCHANGED <<live, gen, is_connected, cdc_acm_handle, rx_queue, rx_semaphore,
                   drv, wgen, opc, ogen, rxVars>>

(* The transfer starts on the device handle read now (host mode), or on   *)
(* TinyUSB (device mode); with no handle in host mode nothing is sent.     *)
hosted_usb_write_begin(w) ==
    /\ wpc[w] = "begin"
    /\ freedAccess' = Used(w)
    /\ SetPc(w, IF (Mode = "host" /\ cdc_acm_handle) \/ Mode = "device" THEN "xfer" ELSE "give")
    /\ UNCHANGED <<ctxVars, drv, wgen, opc, ogen, rxVars>>

(* The blocking transfer ends; in host mode it used a device that must     *)
(* still be open.                                                          *)
hosted_usb_write_end(w) ==
    /\ wpc[w] = "xfer"
    /\ freedAccess' = (freedAccess \/ (Mode = "host" /\ ~drv.open))
    /\ SetPc(w, "give")
    /\ UNCHANGED <<ctxVars, drv, wgen, opc, ogen, rxVars>>

hosted_usb_write_give(w) ==
    /\ wpc[w] = "give"
    /\ freedAccess' = Used(w)
    /\ tx_holder' = IF live /\ wgen[w] = gen THEN None ELSE tx_holder
    /\ SetPc(w, "idle")
    /\ UNCHANGED <<live, gen, is_connected, cdc_acm_handle, rx_queue, rx_semaphore,
                   drv, wgen, opc, ogen, rxVars>>

-----------------------------------------------------------------------------
\* The configuration esp_hosted_usb_get_config returns to every
\* hosted_usb_init: host or device mode, fixed for the run.
Init ==
    /\ Mode \in {"host", "device"}
    /\ live = FALSE /\ gen = 0
    /\ is_connected = FALSE /\ cdc_acm_handle = FALSE
    /\ rx_queue = 0 /\ rx_semaphore = 0 /\ tx_holder = None
    /\ drv = [host |-> FALSE, client |-> FALSE, cdc |-> FALSE, tusb |-> FALSE,
              attached |-> FALSE, open |-> FALSE, gone |-> FALSE, arg |-> 0]
    /\ wpc = [w \in Writers |-> "idle"]
    /\ wgen = [w \in Writers |-> 0]
    /\ opc = "idle" /\ ogen = 0
    /\ rdpc = "idle"
    /\ wtpc = "idle" /\ wtgen = 0
    /\ freedAccess = FALSE

Write(w) ==
    /\ UNCHANGED Mode
    /\ \/ hosted_usb_write_check(w) \/ hosted_usb_write_take(w)
       \/ hosted_usb_write_begin(w) \/ hosted_usb_write_end(w)
       \/ hosted_usb_write_give(w)

Next ==
    /\ UNCHANGED Mode
    /\ \/ hosted_usb_init \/ hosted_usb_deinit
       \/ hosted_usb_host_open_device \/ hosted_usb_host_open_device_connected
       \/ hosted_usb_host_close_device
       \/ hosted_usb_device_connect \/ hosted_usb_device_disconnect
       \/ DevicePlug \/ DeviceUnplug
       \/ \E ev \in CdcEvents : cdc_acm_host_event_callback(ev)
       \/ cdc_acm_host_data_callback
       \/ tinyusb_cdc_rx_callback
       \/ \E dtr \in BOOLEAN : tinyusb_cdc_line_state_changed_callback(dtr)
       \/ hosted_wait_usb_rx_data_check \/ hosted_wait_usb_rx_data_take
       \/ hosted_wait_usb_rx_data_wake \/ hosted_wait_usb_rx_data_count
       \/ hosted_usb_read_check \/ hosted_usb_read_end
       \/ \E w \in Writers : Write(w)

(* Every writer is a FreeRTOS task that runs when it is ready; each of     *)
(* its steps is enabled until taken, because both blocking calls of        *)
(* hosted_usb_write end within their 1000 ms timeouts. Nothing obliges the *)
(* application to call init, open, close or deinit, or the bus and the     *)
(* drivers to raise events.                                                *)
Spec == Init /\ [][Next]_vars /\ \A w \in Writers : WF_vars(Write(w))

-----------------------------------------------------------------------------
TypeOK ==
    /\ Mode \in {"host", "device"}
    /\ live \in BOOLEAN /\ gen \in 0 .. MaxInits
    /\ is_connected \in BOOLEAN /\ cdc_acm_handle \in BOOLEAN
    /\ rx_queue \in 0 .. RxQueueSize /\ rx_semaphore \in {0, 1}
    /\ tx_holder \in Writers \cup {None}
    /\ drv \in DrvType /\ drv.arg \in 0 .. MaxInits
    /\ wpc \in [Writers -> {"idle", "take", "begin", "xfer", "give"}]
    /\ wgen \in [Writers -> 0 .. MaxInits]
    /\ opc \in {"idle", "rx"} /\ ogen \in 0 .. MaxInits
    /\ rdpc \in {"idle", "rx"}
    /\ wtpc \in {"idle", "take", "blocked", "count"} /\ wtgen \in 0 .. MaxInits
    /\ freedAccess \in BOOLEAN

(* hosted_usb_write's TX mutex: every task between its take and its give   *)
(* on the live context holds tx_semaphore, so at most one task transfers.  *)
InTxSection(w) == wpc[w] \in {"begin", "xfer", "give"} /\ live /\ wgen[w] = gen

TxMutualExclusion == \A w \in Writers : InTxSection(w) => tx_holder = w

(* hosted_usb_write always returns, and it returns without the TX mutex,  *)
(* whatever close, deinit and re-init do to the context and its semaphore  *)
(* meanwhile and however the other writers compete for the mutex.          *)
WriteReturns ==
    \A w \in Writers : wpc[w] # "idle" ~> (wpc[w] = "idle" /\ tx_holder # w)

(* Host mode: a connected context holds a device handle (hosted_usb_write  *)
(* sends on it, hosted_usb_deinit closes it only if connected).            *)
ConnectedHasHandle ==
    live /\ Mode = "host" /\ is_connected => cdc_acm_handle

(* No callback, transfer or semaphore operation touches a context, a       *)
(* semaphore or a device after it was freed or closed.                     *)
NoUseAfterFree == ~freedAccess
=============================================================================
