# TLA+ models of the ESP-Hosted USB transport

These modules model the USB transport of this repository: the host-side
multiplexer in `src/host/drivers/transport/usb/usb_drv.c` and the FreeRTOS
USB port layer in `src/host/port/esp/freertos/src/usb_wrapper.c`. They also
cover the ESP-IDF version guards in the two `*wifi_config.h` headers. Each
module is translated from the C source. `spec.md` is used only to state
what the code is supposed to guarantee.

## 1. Inventory

### Components, their state and operations

| Component | Source | State | Operations |
|---|---|---|---|
| Outbound priority queue bank | `usb_drv.c` | `to_slave_queue[MAX_PRIORITY_QUEUES]` (FIFO of `interface_buffer_handle_t`, depth `tx_queue_size`), counting semaphore `sem_to_slave_queue` (max count `MAX_PRIORITY_QUEUES`), flag `usb_start_write_thread` | `esp_hosted_tx` (any application task), `h_usb_write_task` (one consumer task) |
| Inbound priority queue bank | `usb_drv.c` | `from_slave_queue[]`, `sem_from_slave_queue` | `h_usb_process_rx_task` (dispatch to `process_priv_communication` or `send_to_host_queue`). Its producer, `h_usb_read_task`, is a placeholder that only sleeps. |
| Transport lifecycle | `usb_drv.c` | `usb_context`, the task handles, both banks | `bus_init_internal` (its cleanup path included), `bus_deinit_internal`, `ensure_slave_bus_ready` (a placeholder that returns OK) |
| Capability negotiation | `usb_drv.c` | none (pure) | `process_capabilities_resp`: sets `raw_tp_in_use` to USB if the slave's capability byte has the USB bit |
| USB port wrapper | `usb_wrapper.c` | `g_usb_ctx`: `is_connected`, `cdc_acm_handle`, `rx_queue`, `tx_semaphore` (mutex), `rx_semaphore` (binary), host-library task, client handle, `usb_host_installed` | `hosted_usb_init` / `_deinit`, `hosted_usb_host_open_device` / `_close_device`, `hosted_usb_device_connect` / `_disconnect`, `hosted_usb_write`, `hosted_usb_read`, `hosted_wait_usb_rx_data`, and the callbacks `cdc_acm_host_event_callback`, `cdc_acm_host_data_callback`, `tinyusb_cdc_rx_callback`, `tinyusb_cdc_line_state_changed_callback` |
| ESP-IDF version guards | `slave_wifi_config.h`, `esp_hosted_wifi_config.h` | compile-time | `H_GOT_AP_CONFIG_PARAM_TRANSITION_DISABLE` and the other `H_*` feature macros |
| RPC reserved-bit macros | `esp_hosted_bitmasks.h` | none (pure) | `*_GET_RESERVED_VAL`, `*_SET_RESERVED_VAL` |
| WiFi weak shims | `esp_wifi_weak.c` | none | forward `esp_wifi_*` to `esp_wifi_remote_*` |
| Example application | `examples/.../main.c` | `s_retry_num`, event group bits | `event_handler` (reconnects up to 10 times), `wifi_init_sta`, console |

### How the parts interact

- **Shared memory between tasks.** Application tasks call `esp_hosted_tx`.
  It appends to `to_slave_queue[prio]`, posts `sem_to_slave_queue` and sets
  `usb_start_write_thread`. `h_usb_write_task` waits on the semaphore. For
  each count it takes, it makes one non-blocking receive per priority, in
  index order, and calls the handle's free function. No lock protects
  `to_slave_queue[]` or `usb_context` against `bus_deinit_internal`, which
  runs in the caller's task.
- **Callbacks.** The ESP-IDF CDC-ACM host driver calls the wrapper's event
  and data callbacks from its own task. It passes the context pointer it was
  given at `cdc_acm_host_open` (`user_arg`). TinyUSB calls the device-mode
  callbacks through the global `g_usb_ctx`. These callbacks change
  `is_connected` and `cdc_acm_handle`, and they fill `rx_queue`. Meanwhile
  API calls in other tasks read and change the same fields.
- **Mutex.** `hosted_usb_write` holds `tx_semaphore`, which it takes with a
  1000 ms timeout. Nothing else takes that mutex: not close, not deinit,
  not the callbacks.

### What is hard

- **Lost wake-ups.** The semaphore has a maximum count, and the queues hold
  more than that.
- **Teardown racing the users.** Queues, semaphores, tasks and the context
  are deleted while other tasks and callbacks still hold pointers to them.
- **Partial failure.** Init fails part-way and cleans up. A task is deleted
  between receiving a handle and freeing it.
- **Callbacks out of order with API calls.** A disconnect or error event
  can arrive before close or deinit, or between them.
- **Timeouts.** The writer's mutex take can time out.

### What makes each component correct

- **Queue bank and write task.** Every accepted handle is freed exactly
  once, after it has left the queue. Every post of the semaphore corresponds
  to a queued handle, so that nothing is stranded. A signalled queue is
  eventually served. Teardown frees whatever is still queued.
- **Lifecycle.** Nothing uses a queue or semaphore after it is deleted.
  Teardown releases exactly what init created.
- **Wrapper.** Writers are mutually exclusive. The context's
  `is_connected` and `cdc_acm_handle` agree with the driver's open device. No
  callback runs on a freed context. Deinit leaves no driver installed and no
  device open.
- **Version guards.** Each macro is 1 exactly for the versions its comment
  names.

## 2. Plan

Most important first. The items marked done are on disk and checked.

1. **`UsbDrvTx`** (done). The outbound bank, `esp_hosted_tx`, the write
   task, and init/deinit, with init in its four stages.
2. **`UsbWrapper`** (done). The port wrapper with the ESP-IDF drivers'
   contract.
3. **`IdfVersionConfig`** (done). The version guards.
4. **`PriorityBank`** (done). An abstract lossy priority bank. Both pumps
   are shown to implement it.
5. **`UsbDrvRx`** (done). The inbound bank and `h_usb_process_rx_task`.
6. **`RpcBitmasks`** (done). The GET/SET reserved-value macros and the
   bit layouts, over every input that fits the 16-bit word.
7. **`UsbDrv`** (planned). Composes `UsbDrvTx` and `UsbDrvRx` under one
   `bus_init_internal` / `bus_deinit_internal`. It adds the unguarded
   double-init hazard: two write tasks on one bank.
8. **`Capabilities`** (planned). `process_capabilities_resp` as an
   operator, over all 8-bit capability bytes.
9. **`WifiRetry`** (done). The example's `event_handler`: a bounded
   reconnect counter, its reset on GOT_IP, and the FAIL and CONNECTED bits.
   Liveness: `wifi_init_sta` eventually returns.
10. Wrapper additions (planned):
    - liveness for `rx_queue`, which is never drained;
    - the ordering of `hosted_usb_device_connect` against DTR.

## 3. Modules

### `UsbDrvTx` (`usb_drv.c`)

A buffer handle is a model value. `Freeable` is the set of handles with
`func` and `free_buf_handle` set; only those are ever freed. The code's
variables keep their names: `usb_context`, `to_slave_queue`,
`sem_to_slave_queue` (its count) and `usb_start_write_thread`.

**Callers.** `esp_hosted_tx` is split where another task can interleave:

- `esp_hosted_tx_check` checks `usb_context` and tests
  `to_slave_queue[prio]` for NULL;
- `esp_hosted_tx_send` calls `H_PLATFORM_Q_SEND(to_slave_queue[prio], ..., 0)`,
  which reads the pointer again and fails at once when the queue is full;
- `esp_hosted_tx_post` tests `sem_to_slave_queue` for NULL;
- `esp_hosted_tx_give` calls `H_PLATFORM_SEM_POST`, which reads that pointer
  again, and sets the start flag.

A give at the maximum count fails, as a FreeRTOS counting semaphore's does.
A re-read that finds NULL, because `bus_deinit_internal` ran after the test,
sets the ghost `freedAccess`. A re-read after a later `bus_init_internal`
finds that call's new objects, which is safe. `gen` counts
`bus_init_internal` calls, for the bound `MaxInits`.

**Write task.** `h_usb_write_task` is three actions:

- `_wait` takes a count;
- `_recv` makes one non-blocking receive at `wprio`;
- `_release` calls the free function.

`Advance` is the `for (prio ...)` loop step.

**Lifecycle.** `bus_init_internal` runs in the caller's task, and other
tasks interleave with it. It is four steps, tracked by `lpc`:

- `_alloc` allocates `usb_context` and sets it;
- `_queues` creates `to_slave_queue[]` (`queues_exist`);
- `_sems` creates `sem_to_slave_queue` (`sem_exists`);
- `_tasks` starts `h_usb_write_task`.

`bus_init_internal` has no already-initialised check, unlike
`hosted_usb_init`. `_alloc` is therefore guarded by `~usb_context`, an
assumption that the transport layer (not in this repository) calls it only
while torn down. `PROJECT.json` lists what a second call would do as a
hazard. A creation that fails jumps to `_cleanup` from any stage after the
allocation. `_cleanup` and `bus_deinit_internal` share `Teardown`: it
deletes the write task wherever it is, then the queues with their contents,
then the semaphore, and frees the context. `esp_hosted_tx` checks
`usb_context` and then the queue pointer, so a caller can run between the
stages of init.

**Refinement.** `HeldBank` is the bank with the handle the write task
holds (received, not yet freed) put back at the head of its queue.
`Bank == INSTANCE PriorityBank WITH ...` maps `bank` to `HeldBank`,
`accepted` to `accepted`, and `consumed` to the freeable handles already
released. `ImplementsPriorityBank == Bank!Spec` is checked as a property.

**Ghost variables.** `accepted`, `released`, `leaked` and `freedAccess`
record what happened to each handle.
The history variable `owed` is the set of priorities that were non-empty
when the write task last took a count. Each receive removes its priority
and a teardown empties it. It is not in the code; it serves only
`SweepServesHeads`.

### `PriorityBank` (abstract)

What a priority queue bank promises (spec.md 4.2 and the Buffer Handle
invariant), whoever drains it. It has one FIFO per priority. A handle
enters at most once. A consumer finishes with the head of some queue.
Teardown may drop what is still inside. It has no fairness: it is a safety
specification only.

### `UsbDrvRx` (`usb_drv.c`, inbound)

`from_slave_queue[]`, `sem_from_slave_queue` and `h_usb_process_rx_task`
(`_wait`, `_recv`, `_dispatch`). Nothing under `src/` fills the inbound bank,
because `h_usb_read_task` only sleeps. The producer `RxProduce` is
therefore the framing step of spec.md section 2: it queues and posts. A
handle's fields are given by the sets `PrivIf`, `Owning` and `Valid`.
`_dispatch` has three branches:

- a valid handle of another interface goes to `send_to_host_queue`
  (`toHost`);
- a valid `ESP_PRIV_IF` handle goes to `process_priv_communication`, a
  placeholder that never frees it (`toPriv`, `leaked`);
- a handle without both buffer pointers is skipped, and is not freed.

Init and deinit are atomic here: `UsbDrvTx` already checks their
interleavings. The refinement mapping is the same as in `UsbDrvTx`, with
`consumed` being the valid handles already dispatched.

### `RpcBitmasks` (`esp_hosted_bitmasks.h`)

`Layout` records each group's enum fields (position and width),
`*_MAX_USED_BIT` and `*_RESERVED_BITMASK`. The macros are operators written
with `Bitwise`. The state is one input (group, packed flags, reserved
value) chosen by `Init`, so TLC checks every input.

### `UsbWrapper` (`usb_wrapper.c`)

The context fields keep their names. `cdc_acm_handle` is a boolean, since
there is one device. `rx_queue` is a count, because its contents are never
read. `tx_holder` is the mutex owner. `gen` identifies the context
allocation: a pointer to an older generation is a dangling pointer.

**The drivers.** The ESP-IDF drivers are represented only by the contract
the wrapper relies on, in the record `drv`:

- `usb_host_install`, `cdc_acm_host_install` and `tinyusb_driver_install`
  refuse when already installed;
- `cdc_acm_host_uninstall` refuses while a device is open;
- `usb_host_uninstall` refuses while a client is registered;
- `cdc_acm_host_open` succeeds on a plugged-in device that is not open, and
  records the context it was given as `user_arg` (`drv.arg`);
- unplugging an open device raises `DEVICE_DISCONNECTED`.

These are the documented ESP-IDF behaviours. `DevicePlug` and
`DeviceUnplug` are the only environment actions.

**Init and deinit.** `hosted_usb_init` chooses the first step that fails:
an allocation, or an install that the driver refuses. It then applies
`hosted_usb_deinit`'s clean-up to the partial context, which is
`HostCleanup`.

**Writes.** `hosted_usb_write` is five steps per writer:

1. check;
2. take, which may time out while another writer holds the mutex;
3. begin the transfer on the handle read now;
4. end of the blocking transfer;
5. give.

**Open.** `hosted_usb_host_open_device` is two steps. `cdc_acm_host_open`
stores the handle and gives the driver the context as `user_arg`, so its
callbacks can run from then on. After `cdc_acm_host_data_rx_blocking`
returns, `_connected` sets `is_connected`. `opc` and `ogen` record an open
in progress and the context it works on.

**Reads and waits.** `hosted_usb_read` in host mode is two steps:
- the check, which reads `cdc_acm_handle`;
- the end of the 100 ms blocking receive on that device, which must still
  be open.

No lock is taken. A device-mode read is one TinyUSB call and changes no
state, so it is not an action.

`hosted_wait_usb_rx_data` reads the global `g_usb_ctx` three times, so it
is four steps (`wtpc`):
1. the test of `g_usb_ctx` and `is_connected`;
2. the second read, for `xSemaphoreTake`;
3. the wake: the semaphore was given, or the wait timed out;
4. the third read, for `uxQueueMessagesWaiting`.

A `hosted_usb_deinit` between the steps is a NULL dereference, or it
deletes the semaphore the task is blocked on. `wtgen` records which
context's semaphore the task waits on.

**Left out.** `hosted_usb_host_check_device` changes no state, and
`usb_host_lib_task` only logs.

### `IdfVersionConfig` (the version headers)

`ESP_IDF_VERSION_VAL` is written with `Bitwise` `|`. A version is a
variable fixed in `Init`, so TLC enumerates every version from 5.3.1 to
5.5.4.

### `WifiRetry` (the example's `main.c`)

`event_handler` is one action per branch (`_sta_start`,
`_sta_disconnected`, `_got_ip`, and `_other` for events no branch
matches). Each branch takes the oldest event of the default event loop's
queue `events`. `wifi_init_sta` is two actions of the main task:

- `_start` registers the handler and starts the station, which posts
  STA_START;
- `_wait` is `xEventGroupWaitBits`, which returns when a bit is set and
  reports CONNECTED first.

The WiFi driver and the DHCP client are the environment, in `wifi`:

- `DriverAssociate` and `DriverFail` end a connect attempt;
- `DhcpGotIp` posts GOT_IP;
- `LinkLost` drops an association.

The ghost `attempts` counts `esp_wifi_connect` calls since the last GOT_IP.
The retry bound is the code's literal 10, so the model needs no bound of
its own.

## 4. Runs

| Run | cfg | Expect | What it shows |
|---|---|---|---|
| tx_safety | `MC_UsbDrvTx_safety.cfg` | pass | Two callers, three handles, two priorities, two staged init/deinit cycles. `ReleaseAtMostOnce`: a handle is freed at most once, only if accepted, and only after leaving the queues. `SweepServesHeads`: a history variable `owed` records the priorities that were non-empty when the write task took its count; the task never waits again before it has received from each of them, so a ready head is delayed by at most one sweep. `ImplementsPriorityBank`: the bank refines `PriorityBank`. `SignalledHeadIsTaken`: under weak fairness of the write task, a queue head is taken while the semaphore has a count, or the transport is torn down. |
| tx_stranded | `MC_UsbDrvTx_stranded.cfg` | violation | `NoStrandedBuffer`, under the state constraint `SetUpSends` (callers send only after `bus_init_internal` has finished): three sends at priority 0 post only twice (maximum count 2). After two wakes the third handle is queued and the task is blocked. Without the constraint TLC first reports a shorter trace: a send between the creation of the queues and of the semaphore (usb_drv.c:136-150) skips its post. |
| tx_teardown | `MC_UsbDrvTx_teardown.cfg` | violation | `TeardownReleasesQueued`: deinit deletes a queue that still holds a freeable handle. |
| tx_uaf | `MC_UsbDrvTx_uaf.cfg` | violation | `NoUseAfterFree`: `esp_hosted_tx` tests `to_slave_queue[prio]` (or `sem_to_slave_queue`), deinit sets it to NULL, then the re-read in `H_PLATFORM_Q_SEND` (or `SEM_POST`) passes NULL. |
| rx_safety | `MC_UsbDrvRx_safety.cfg` | pass | `ImplementsPriorityBank`: the inbound bank refines `PriorityBank`, so each valid handle is dispatched at most once and in arrival order per priority. `SignalledHeadDispatched`: under weak fairness of the RX task, a signalled head is taken. |
| rx_release | `MC_UsbDrvRx_release.cfg` | violation | `RxOwnershipConserved`: every produced owning handle is queued, held by the RX task, handed to `send_to_host_queue` or deleted by a teardown. The trace is init, a private-interface handle produced, then the RX task's wait, receive and dispatch: `process_priv_communication` neither frees nor keeps it. |
| wrapper_safety | `MC_UsbWrapper_safety.cfg` | pass | In host and device mode (chosen by `Init`, as `esp_hosted_usb_get_config` fixes it for a run): `TxMutualExclusion`: at most one writer transfers on the live context, under every order of open (both steps), close, connect, disconnect, plug, unplug, callbacks, reads, waits, writes and init/deinit. `WriteReturns`: every `hosted_usb_write` returns, and returns without the mutex. This relies on the 1000 ms timeouts; a mutex taken with `portMAX_DELAY` (the mutant) blocks for ever once deinit deletes it, or starves behind another writer. |
| wrapper_uaf | `MC_UsbWrapper_uaf.cfg` | violation | `NoUseAfterFree`. The shortest trace: `hosted_wait_usb_rx_data` tests `g_usb_ctx`, deinit frees it, and the re-read for `xSemaphoreTake` dereferences NULL. Another path: an ERROR event, then deinit (which does not close, because `is_connected` is false), then the next CDC-ACM callback runs on the freed context; the same skipped close leaves the drivers installed, so the next init fails. |
| wrapper_open_race | `MC_UsbWrapper_openrace.cfg` | violation | `ConnectedHasHandle`: `hosted_usb_host_open_device` sets `is_connected` after `cdc_acm_host_open` has handed the context to the driver. A DEVICE_DISCONNECTED callback, or a close from another task, in between leaves the context connected with no handle. |
| wifi_retry | `WifiRetry.cfg` | pass | `RetryBudget`: at most 1 + 10 connect attempts between successes, however failed attempts and lost links interleave, and giving up without ever connecting happens after exactly 11 with none in progress. `InitReturns`: `wifi_init_sta` leaves its `portMAX_DELAY` wait. |
| idf_transition_disable | `IdfVersionConfig_transition.cfg` | violation | `TransitionDisableMatchesComment`: the guard is 0 for 5.3.3, where its comment says the field exists. |
| rpc_bitmasks | `RpcBitmasks.cfg` | pass | `LayoutConsistent`: each group's fields are disjoint and fill the bits below `MAX_USED_BIT`, and its mask is exactly the bits above. `ReservedRoundTrip`: SET then GET returns the reserved value and leaves every flag bit alone. |

Each property of a passing run has a mutant in `PROJECT.json`, a plausible
code bug that TLC then catches:

- a write task that ignores the result of its receive and frees its stale
  `buf_handle` again;
- a priority loop that stops one short (TX and RX);
- a semaphore wait whose result is ignored (TX and RX);
- a send that puts the handle at the front of the queue;
- an RX receive whose result is ignored, so the old handle is dispatched
  again;
- a writer that proceeds after its mutex take timed out;
- a close that leaves the handle set;
- an rx semaphore made counting;
- a retry test written `<= 10`, and a GOT_IP branch that does not set the
  CONNECTED bit;
- a station mask one bit short, and the reserved shift off by one in
  either direction.

### Bounds and why they suffice

- **`UsbDrvTx`: `NumPrio = 2`, so the maximum count is 2, with
  `TxQueueSize = 3`.** Saturation needs more sends at one priority than the
  maximum count, which needs a queue depth of at least 3; the real depth is
  `tx_queue_size`, typically 20.
- **`UsbDrvTx`: two callers and three handles, one without a free
  function.** This lets two `esp_hosted_tx` calls interleave with each other
  and with every stage of init and deinit.
- **`MaxInits = 2`.** A stale queue pointer or callback from the first
  generation can meet the second.
- **`UsbDrvRx`: three handles (one private-interface, one malformed),
  `RxQueueSize = 3`.** Every dispatch branch is reached, and a queue can
  hold more handles than the semaphore's maximum count.
- **`UsbWrapper`: two writers.** Enough for mutual exclusion.
  `RxQueueSize = 2` reaches a full queue.
- **`RpcBitmasks`:** every group and every reserved value that fits, with
  three flag patterns. The macros treat flag bits bitwise, so three
  patterns (none, all, alternating) are enough.

Symmetry is used on interchangeable callers, writers and freeable handles,
but not in runs that check liveness (`wrapper_safety`, `tx_safety`,
`rx_safety`, `wifi_retry`).

### Fairness

`h_usb_write_task` and `h_usb_process_rx_task` are weakly fair. Each is a
FreeRTOS task that blocks only on its semaphore, so once it is ready it
eventually runs. The stages of `bus_init_internal` are weakly fair too
(`InitSteps`): an init call that has started runs to its end in its task.
Application callers, starting init, deinit, the producer, the USB device
and the callbacks are not fair, because they may stop.

In `UsbWrapper`, each writer's steps (`Write(w)`) are weakly fair. A writer
is a task that runs when ready, and each of its steps stays enabled until
taken: both blocking calls in `hosted_usb_write` end within 1000 ms. Open,
close, deinit, the reader, the waiter, the bus and the drivers are not fair.

In `WifiRetry`, the main task and the event loop task are weakly fair for
the same reason. So is the driver's ending of a connect attempt: the
ESP-IDF station posts a disconnect when an attempt times out. DHCP
answering an association is weakly fair too. That one is an assumption:
without it an association that never gets an address blocks
`wifi_init_sta` for ever, and `PROJECT.json` lists this as a hazard. A
link loss is not fair.

Deadlock checking is off in these runs:

- the passing runs, because the bounded callers and init counts run out
  and the real tasks then block forever on their semaphores;
- the violation runs, because they share the passing runs' constants.

## 5. Not modelled, and why

- **Byte-level USB I/O** (`cdc_acm_host_data_tx_blocking`,
  `cdc_acm_host_data_rx_blocking`, the TinyUSB FIFO). These are external; only their effect on shared
  state is modelled.
- **Over-reads in `xQueueSend`.** The copy length differs from the buffer
  length (`usb_wrapper.c:114`, `:140`), which is below the model's
  abstraction.
- **Task priorities and CPU starvation.** The write task busy-spins until
  the first send.
- **`esp_wifi_weak.c`.** Pure forwarding.
- **Console and NVS** in the example. spec.md puts them out of scope.
  Reading them shows one thing worth knowing: `console_task`
  (`main.c:128`) returns after `esp_console_start_repl`, which itself
  returns at once. A FreeRTOS task must not return, and ESP-IDF's task
  wrapper aborts when one does.
- **Return values.** `hosted_wait_usb_rx_data` returns
  `uxQueueMessagesWaiting`, a count of queue items, not the "number of
  bytes to read" that `usb_wrapper.h:35` promises. No property is about
  return values.
- **BT/HCI headers.** Declarations only.
