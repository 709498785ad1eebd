------------------------------ MODULE WifiRetry ------------------------------
(***************************************************************************)
(* The station bring-up of the USB transport test example,                 *)
(* src/examples/host_usb_transport_test/main/main.c: event_handler, run    *)
(* by the default event loop task for each WiFi and IP event, with its     *)
(* retry counter s_retry_num and the CONNECTED and FAIL bits of            *)
(* s_wifi_event_group; and wifi_init_sta, which starts the station in the  *)
(* main task and blocks in xEventGroupWaitBits until one of the bits is    *)
(* set.                                                                    *)
(*                                                                         *)
(* The WiFi driver and DHCP client (reached over the hosted transport) are *)
(* the environment: a connect attempt ends in association or in a          *)
(* STA_DISCONNECTED event, an association gets an address or is lost, and  *)
(* every event is queued to the event loop in order.                       *)
(***************************************************************************)
EXTENDS Naturals, Sequences

\* The literal bound of the retry test in event_handler.
EXAMPLE_MAXIMUM_RETRY == 10

Events == {"STA_START", "STA_CONNECTED", "STA_DISCONNECTED", "GOT_IP"}

VARIABLES
    mpc,            \* wifi_init_sta in the main task: "start", "wait", "done"
    result,         \* what wifi_init_sta reported: "none", "connected", "failed"
    events,         \* the default event loop's queue
    s_retry_num,
    bits,           \* the bits set in s_wifi_event_group
    wifi,           \* the station: "idle", "connecting", "associated", "got_ip"
    attempts        \* ghost: esp_wifi_connect calls since the last GOT_IP handled

vars == <<mpc, result, events, s_retry_num, bits, wifi, attempts>>

-----------------------------------------------------------------------------
(* wifi_init_sta up to esp_wifi_start: the handler is registered for every *)
(* WiFi event and for GOT_IP before the station is started, so the        *)
(* STA_START event it posts is seen. (The ESP_ERROR_CHECK calls abort on   *)
(* failure and are not modelled.)                                          *)
wifi_init_sta_start ==
    /\ mpc = "start"
    /\ events' = Append(events, "STA_START")
    /\ mpc' = "wait"
    /\ UNCHANGED <<result, s_retry_num, bits, wifi, attempts>>

(* xEventGroupWaitBits(.., CONNECTED | FAIL, pdFALSE, pdFALSE,             *)
(* portMAX_DELAY) returns once either bit is set, and CONNECTED is tested  *)
(* first.                                                                  *)
wifi_init_sta_wait ==
    /\ mpc = "wait"
    /\ bits # {}
    /\ result' = IF "CONNECTED" \in bits THEN "connected" ELSE "failed"
    /\ mpc' = "done"
    /\ UNCHANGED <<events, s_retry_num, bits, wifi, attempts>>

-----------------------------------------------------------------------------
\* esp_wifi_connect(): a new connect attempt.
esp_wifi_connect ==
    /\ wifi' = "connecting"
    /\ attempts' = attempts + 1

\* The event loop task takes the oldest event.
Take(ev) == events # <<>> /\ Head(events) = ev /\ events' = Tail(events)

(* event_handler, WIFI_EVENT_STA_START: connect.                           *)
event_handler_sta_start ==
    /\ Take("STA_START")
    /\ esp_wifi_connect
    /\ UNCHANGED <<mpc, result, s_retry_num, bits>>

\* Mutant: the retry test is written s_retry_num <= 10.
event_handler_sta_disconnected_le ==
    /\ Take("STA_DISCONNECTED")
    /\ \/ /\ s_retry_num <= EXAMPLE_MAXIMUM_RETRY
          /\ esp_wifi_connect
          /\ s_retry_num' = s_retry_num + 1
          /\ UNCHANGED bits
       \/ /\ s_retry_num > EXAMPLE_MAXIMUM_RETRY
          /\ bits' = bits \cup {"FAIL"}
          /\ UNCHANGED <<s_retry_num, wifi, attempts>>
    /\ UNCHANGED <<mpc, result>>

(* event_handler, WIFI_EVENT_STA_DISCONNECTED: reconnect and count while   *)
(* s_retry_num < 10, otherwise set WIFI_FAIL_BIT.                          *)
event_handler_sta_disconnected ==
    /\ Take("STA_DISCONNECTED")
    /\ \/ /\ s_retry_num < EXAMPLE_MAXIMUM_RETRY
          /\ esp_wifi_connect
          /\ s_retry_num' = s_retry_num + 1
          /\ UNCHANGED bits
       \/ /\ s_retry_num >= EXAMPLE_MAXIMUM_RETRY
          /\ bits' = bits \cup {"FAIL"}
          /\ UNCHANGED <<s_retry_num, wifi, attempts>>
    /\ UNCHANGED <<mpc, result>>

\* Mutant: GOT_IP resets the counter but does not set WIFI_CONNECTED_BIT.
event_handler_got_ip_no_bit ==
    /\ Take("GOT_IP")
    /\ s_retry_num' = 0
    /\ attempts' = 0
    /\ UNCHANGED <<mpc, result, wifi, bits>>

(* event_handler, IP_EVENT_STA_GOT_IP: reset the counter and set           *)
(* WIFI_CONNECTED_BIT.                                                     *)
event_handler_got_ip ==
    /\ Take("GOT_IP")
    /\ s_retry_num' = 0
    /\ bits' = bits \cup {"CONNECTED"}
    /\ attempts' = 0
    /\ UNCHANGED <<mpc, result, wifi>>

(* Any other WiFi event (STA_CONNECTED here) matches no branch.            *)
event_handler_other ==
    /\ Take("STA_CONNECTED")
    /\ UNCHANGED <<mpc, result, s_retry_num, bits, wifi, attempts>>

-----------------------------------------------------------------------------
(* The driver ends a connect attempt: it associates (STA_CONNECTED) or     *)
(* gives up on this attempt (STA_DISCONNECTED).                            *)
DriverAssociate ==
    /\ wifi = "connecting"
    /\ wifi' = "associated"
    /\ events' = Append(events, "STA_CONNECTED")
    /\ UNCHANGED <<mpc, result, s_retry_num, bits, attempts>>

DriverFail ==
    /\ wifi = "connecting"
    /\ wifi' = "idle"
    /\ events' = Append(events, "STA_DISCONNECTED")
    /\ UNCHANGED <<mpc, result, s_retry_num, bits, attempts>>

\* The DHCP client obtains an address for the association.
DhcpGotIp ==
    /\ wifi = "associated"
    /\ wifi' = "got_ip"
    /\ events' = Append(events, "GOT_IP")
    /\ UNCHANGED <<mpc, result, s_retry_num, bits, attempts>>

\* The AP drops an established association.
LinkLost ==
    /\ wifi \in {"associated", "got_ip"}
    /\ wifi' = "idle"
    /\ events' = Append(events, "STA_DISCONNECTED")
    /\ UNCHANGED <<mpc, result, s_retry_num, bits, attempts>>

-----------------------------------------------------------------------------
Init ==
    /\ mpc = "start"
    /\ result = "none"
    /\ events = <<>>
    /\ s_retry_num = 0
    /\ bits = {}
    /\ wifi = "idle"
    /\ attempts = 0

MainTask == wifi_init_sta_start \/ wifi_init_sta_wait

EventLoop ==
    \/ event_handler_sta_start
    \/ event_handler_sta_disconnected
    \/ event_handler_got_ip
    \/ event_handler_other

DriverResolve == DriverAssociate \/ DriverFail

Next ==
    \/ MainTask
    \/ EventLoop
    \/ DriverResolve
    \/ DhcpGotIp
    \/ LinkLost

(* The main task and the event loop task are FreeRTOS tasks that run when  *)
(* ready. The WiFi driver ends every connect attempt, by association or by *)
(* a disconnect after its timeouts, and DHCP eventually answers an         *)
(* association; a link loss may or may not happen.                         *)
Spec == /\ Init /\ [][Next]_vars
        /\ WF_vars(MainTask) /\ WF_vars(EventLoop)
        /\ WF_vars(DriverResolve) /\ WF_vars(DhcpGotIp)

-----------------------------------------------------------------------------
TypeOK ==
    /\ mpc \in {"start", "wait", "done"}
    /\ result \in {"none", "connected", "failed"}
    /\ events \in Seq(Events) /\ Len(events) <= 3
    /\ s_retry_num \in 0 .. EXAMPLE_MAXIMUM_RETRY
    /\ bits \subseteq {"CONNECTED", "FAIL"}
    /\ wifi \in {"idle", "connecting", "associated", "got_ip"}
    /\ attempts \in Nat

(* The retry budget of event_handler: since the last GOT_IP (or the        *)
(* start) at most 1 + 10 connect attempts are made, however the            *)
(* disconnects from failed attempts and from lost links interleave; and    *)
(* when the handler has given up without ever connecting, it made exactly  *)
(* that many attempts and none is still in progress.                       *)
RetryBudget ==
    /\ attempts <= EXAMPLE_MAXIMUM_RETRY + 1
    /\ bits = {"FAIL"} =>
           /\ attempts = EXAMPLE_MAXIMUM_RETRY + 1
           /\ wifi = "idle"

(* wifi_init_sta returns: whatever the driver does with each attempt and   *)
(* however often the link is lost, the main task leaves                    *)
(* xEventGroupWaitBits(.., portMAX_DELAY).                                 *)
InitReturns == <>(mpc = "done")
=============================================================================
