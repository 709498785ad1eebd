------------------------------ MODULE UsbDrvRx ------------------------------
(***************************************************************************)
(* The inbound half of src/host/drivers/transport/usb/usb_drv.c: the bank  *)
(* of from_slave_queue priority queues, the counting semaphore             *)
(* sem_from_slave_queue, the h_usb_process_rx_task pump that dispatches    *)
(* each handle to process_priv_communication or send_to_host_queue, and    *)
(* the inbound part of bus_init_internal / bus_deinit_internal.            *)
(*                                                                         *)
(* Nothing under src/ fills the inbound bank yet (h_usb_read_task only     *)
(* sleeps), so the producer is the framing step of spec.md section 2: it   *)
(* queues a handle and posts the semaphore. A handle is a model value;     *)
(* its fields are given by the sets PrivIf (if_type == ESP_PRIV_IF),       *)
(* Owning (free_buf_handle set) and Valid (priv_buffer_handle and          *)
(* free_buf_handle both set).                                              *)
(***************************************************************************)
EXTENDS Naturals, Sequences, SequencesExt

CONSTANTS
    Handles,        \* inbound buffer handles
    PrivIf,         \* handles with if_type == ESP_PRIV_IF
    Owning,         \* handles with free_buf_handle set
    Valid,          \* handles with priv_buffer_handle && free_buf_handle
    NumPrio,        \* MAX_PRIORITY_QUEUES
    RxQueueSize,    \* config->rx_queue_size
    MaxInits,       \* bound on bus_init_internal calls
    NoBuf           \* the zeroed local buf_handle of the RX task

ASSUME /\ PrivIf \subseteq Handles
       /\ Valid \subseteq Owning /\ Owning \subseteq Handles
       /\ NumPrio \in Nat \ {0}
       /\ RxQueueSize \in Nat \ {0}
       /\ MaxInits \in Nat \ {0}
       /\ NoBuf \notin Handles

Prio == 0 .. NumPrio - 1

\* H_PLATFORM_SEM_CREATE(MAX_PRIORITY_QUEUES, 0): the maximum count.
SemMaxCount == NumPrio

VARIABLES
    usb_context,            \* usb_context # NULL
    gen,                    \* bus_init_internal calls so far
    from_slave_queue,       \* [Prio -> Seq(Handles)]
    sem_from_slave_queue,   \* the semaphore's count
    rpc, rprio, rbuf,       \* h_usb_process_rx_task: position, loop index, buf_handle
    produced,               \* ghost: handles the producer queued
    toHost,                 \* ghost: [Handles -> Nat], send_to_host_queue calls
    toPriv,                 \* ghost: [Handles -> Nat], process_priv_communication calls
    leaked                  \* ghost: owning handles bus_deinit_internal deleted

task   == <<rpc, rprio, rbuf>>
ghosts == <<produced, toHost, toPriv, leaked>>
vars   == <<usb_context, gen, from_slave_queue, sem_from_slave_queue, task, ghosts>>

Queued == UNION {ToSet(from_slave_queue[p]) : p \in Prio}

Held == IF rpc = "dispatch" THEN {rbuf} ELSE {}

EmptyBank == [p \in Prio |-> <<>>]

-----------------------------------------------------------------------------
(* bus_init_internal, inbound part: from_slave_queue[] and                 *)
(* sem_from_slave_queue created, h_usb_process_rx_task started. As in      *)
(* UsbDrvTx a failed creation is undone by cleanup and is not a step, and  *)
(* the call is assumed to come only while torn down.                       *)
bus_init_internal ==
    /\ ~usb_context
    /\ gen < MaxInits
    /\ usb_context' = TRUE
    /\ gen' = gen + 1
    /\ from_slave_queue' = EmptyBank
    /\ sem_from_slave_queue' = 0
    /\ rpc' = "wait" /\ rprio' = 0 /\ rbuf' = NoBuf
    /\ UNCHANGED ghosts

(* bus_deinit_internal, inbound part: the RX task is deleted wherever it   *)
(* is, the queues are deleted with their contents, then the semaphore.     *)
bus_deinit_internal ==
    /\ usb_context
    /\ leaked' = leaked \cup ((Queued \cup Held) \cap Owning)
    /\ usb_context' = FALSE
    /\ from_slave_queue' = EmptyBank
    /\ sem_from_slave_queue' = 0
    /\ rpc' = "none" /\ rprio' = 0 /\ rbuf' = NoBuf
    /\ UNCHANGED <<gen, produced, toHost, toPriv>>

(* The inbound framing step (spec.md 2): a new handle is queued at its     *)
(* priority and the semaphore posted; a give at the maximum count fails.   *)
RxProduce(b, p) ==
    /\ usb_context
    /\ b \notin produced
    /\ Len(from_slave_queue[p]) < RxQueueSize
    /\ from_slave_queue' = [from_slave_queue EXCEPT ![p] = Append(@, b)]
    /\ sem_from_slave_queue' = IF sem_from_slave_queue < SemMaxCount
                               THEN sem_from_slave_queue + 1
                               ELSE sem_from_slave_queue
    /\ produced' = produced \cup {b}
    /\ UNCHANGED <<usb_context, gen, task, toHost, toPriv, leaked>>

-----------------------------------------------------------------------------
(* h_usb_process_rx_task: one count of the semaphore, then one             *)
(* non-blocking receive per priority in index order.                       *)
\* Mutant: the priority loop stops one short.
Advance_skip_last(p) ==
    IF p >= NumPrio - 2
    THEN rpc' = "wait" /\ rprio' = 0
    ELSE rpc' = "recv" /\ rprio' = p + 1

Advance(p) ==
    IF p = NumPrio - 1
    THEN rpc' = "wait" /\ rprio' = 0
    ELSE rpc' = "recv" /\ rprio' = p + 1

\* Mutant: the result of H_PLATFORM_SEM_WAIT is not checked.
h_usb_process_rx_task_wait_ignore_result ==
    /\ rpc = "wait"
    /\ sem_from_slave_queue' = sem_from_slave_queue - 1
    /\ rpc' = "recv" /\ rprio' = 0
    /\ UNCHANGED <<usb_context, gen, from_slave_queue, rbuf, ghosts>>

h_usb_process_rx_task_wait ==
    /\ rpc = "wait"
    /\ sem_from_slave_queue > 0
    /\ sem_from_slave_queue' = sem_from_slave_queue - 1
    /\ rpc' = "recv" /\ rprio' = 0
    /\ UNCHANGED <<usb_context, gen, from_slave_queue, rbuf, ghosts>>

\* Mutant: the result of H_PLATFORM_Q_RECEIVE is ignored, so an empty
\* queue dispatches the handle left in buf_handle by an earlier receive.
h_usb_process_rx_task_recv_ignore_result ==
    /\ rpc = "recv"
    /\ \/ /\ from_slave_queue[rprio] # <<>>
          /\ rbuf' = Head(from_slave_queue[rprio])
          /\ from_slave_queue' = [from_slave_queue EXCEPT ![rprio] = Tail(@)]
       \/ /\ from_slave_queue[rprio] = <<>>
          /\ UNCHANGED <<rbuf, from_slave_queue>>
    /\ rpc' = "dispatch"
    /\ UNCHANGED <<rprio, usb_context, gen, sem_from_slave_queue, ghosts>>

h_usb_process_rx_task_recv ==
    /\ rpc = "recv"
    /\ \/ /\ from_slave_queue[rprio] # <<>>
          /\ rbuf' = Head(from_slave_queue[rprio])
          /\ from_slave_queue' = [from_slave_queue EXCEPT ![rprio] = Tail(@)]
          /\ rpc' = "dispatch"
          /\ UNCHANGED rprio
       \/ /\ from_slave_queue[rprio] = <<>>
          /\ Advance(rprio)
          /\ UNCHANGED <<rbuf, from_slave_queue>>
    /\ UNCHANGED <<usb_context, gen, sem_from_slave_queue, ghosts>>

(* The handle is routed by if_type; send_to_host_queue takes ownership,    *)
(* process_priv_communication is a placeholder that neither keeps nor      *)
(* frees it, and a handle without both buffer pointers is skipped.         *)
h_usb_process_rx_task_dispatch ==
    /\ rpc = "dispatch"
    /\ \/ /\ rbuf \in Valid \ PrivIf
          /\ toHost' = [toHost EXCEPT ![rbuf] = @ + 1]
          /\ UNCHANGED <<toPriv, leaked>>
       \/ /\ rbuf \in Valid \cap PrivIf
          /\ toPriv' = [toPriv EXCEPT ![rbuf] = @ + 1]
          /\ UNCHANGED toHost
       \/ /\ rbuf \notin Valid
          /\ UNCHANGED <<toHost, toPriv>>
    /\ Advance(rprio)
    /\ UNCHANGED <<usb_context, gen, from_slave_queue, sem_from_slave_queue,
                   rbuf, produced, leaked>>

-----------------------------------------------------------------------------
Init ==
    /\ usb_context = FALSE
    /\ gen = 0
    /\ from_slave_queue = EmptyBank
    /\ sem_from_slave_queue = 0
    /\ rpc = "none" /\ rprio = 0 /\ rbuf = NoBuf
    /\ produced = {}
    /\ toHost = [b \in Handles |-> 0]
    /\ toPriv = [b \in Handles |-> 0]
    /\ leaked = {}

TaskNext ==
    \/ h_usb_process_rx_task_wait
    \/ h_usb_process_rx_task_recv
    \/ h_usb_process_rx_task_dispatch

Next ==
    \/ bus_init_internal
    \/ bus_deinit_internal
    \/ \E b \in Handles, p \in Prio : RxProduce(b, p)
    \/ TaskNext

\* The RX task is a FreeRTOS task and runs whenever it is ready; the
\* producer and the lifecycle calls may stop.
Spec == Init /\ [][Next]_vars /\ WF_vars(TaskNext)

-----------------------------------------------------------------------------
TypeOK ==
    /\ usb_context \in BOOLEAN
    /\ gen \in 0 .. MaxInits
    /\ from_slave_queue \in [Prio -> Seq(Handles)]
    /\ \A p \in Prio : Len(from_slave_queue[p]) <= RxQueueSize
    /\ sem_from_slave_queue \in 0 .. SemMaxCount
    /\ rpc \in {"none", "wait", "recv", "dispatch"}
    /\ rprio \in Prio
    /\ rbuf \in Handles \cup {NoBuf}
    /\ produced \subseteq Handles
    /\ toHost \in [Handles -> Nat]
    /\ toPriv \in [Handles -> Nat]
    /\ leaked \subseteq Owning

(* The inbound bank implements PriorityBank: the RX task dispatches the    *)
(* head of a priority queue (a received handle not yet dispatched is still *)
(* that head), each valid handle reaches process_priv_communication or     *)
(* send_to_host_queue at most once and in arrival order per priority, and  *)
(* bus_deinit_internal is a teardown.                                      *)
HeldBank ==
    [p \in Prio |-> IF rpc = "dispatch" /\ rprio = p
                    THEN <<rbuf>> \o from_slave_queue[p]
                    ELSE from_slave_queue[p]]

Bank == INSTANCE PriorityBank
            WITH Tracked <- Valid,
                 bank <- HeldBank,
                 accepted <- produced,
                 consumed <- {b \in Valid : toHost[b] + toPriv[b] > 0}

ImplementsPriorityBank == Bank!Spec

(* Progress of the RX task: a handle at the head of its priority queue     *)
(* while the semaphore holds a count is eventually taken off the queue,    *)
(* unless the transport is torn down.                                      *)
SignalledHeadDispatched ==
    \A b \in Handles, p \in Prio :
        (/\ usb_context /\ sem_from_slave_queue > 0
         /\ from_slave_queue[p] # <<>> /\ Head(from_slave_queue[p]) = b)
            ~> (b \notin Queued \/ ~usb_context)

(* One release per buffer handle (spec.md 3, Buffer Handle): once the      *)
(* producer queues an owning handle, someone owns it at every moment: it   *)
(* is in a from_slave_queue, in the RX task's buf_handle, handed to        *)
(* send_to_host_queue (which takes ownership), or deleted by a teardown    *)
(* (the teardown leak, shown in UsbDrvTx, is set apart). The RX pump must  *)
(* not drop a handle: process_priv_communication neither frees nor keeps   *)
(* one, and a handle lacking priv_buffer_handle is skipped unreleased.     *)
RxOwnershipConserved ==
    \A b \in produced \cap Owning :
        b \in Queued \cup Held \cup leaked \/ toHost[b] > 0
=============================================================================
