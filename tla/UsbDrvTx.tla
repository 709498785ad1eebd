------------------------------ MODULE UsbDrvTx ------------------------------
(***************************************************************************)
(* The outbound half of the USB transport multiplexer of                   *)
(* src/host/drivers/transport/usb/usb_drv.c: the bank of to_slave_queue    *)
(* priority queues, the counting semaphore sem_to_slave_queue, the         *)
(* application tasks calling esp_hosted_tx, the h_usb_write_task consumer  *)
(* and the bus_init_internal / bus_deinit_internal lifecycle.              *)
(*                                                                         *)
(* A buffer handle is a model value. Freeable is the set of handles that   *)
(* carry both a free function and a buffer to free; only those are ever    *)
(* released. The ghost variables accepted, released, leaked and           *)
(* freedAccess record what the code did to each handle, for properties.   *)
(***************************************************************************)
EXTENDS Naturals, Sequences, SequencesExt, FiniteSets

CONSTANTS
    Callers,        \* application tasks that call esp_hosted_tx
    Buffers,        \* buffer handles the callers own
    Freeable,       \* handles with func && free_buf_handle set
    NumPrio,        \* MAX_PRIORITY_QUEUES
    TxQueueSize,    \* config->tx_queue_size
    MaxInits,       \* bound on bus_init_internal calls
    NoBuf           \* the empty local buf_handle of the write task

ASSUME /\ Callers # {} /\ Buffers # {}
       /\ Freeable \subseteq Buffers
       /\ NumPrio \in Nat \ {0}
       /\ TxQueueSize \in Nat \ {0}
       /\ MaxInits \in Nat \ {0}
       /\ NoBuf \notin Buffers

Prio == 0 .. NumPrio - 1

\* The counting semaphore is created by H_PLATFORM_SEM_CREATE(MAX_PRIORITY_QUEUES, 0):
\* its maximum count is the number of priorities.
SemMaxCount == NumPrio

VARIABLES
    usb_context,            \* usb_context # NULL
    gen,                    \* how many times bus_init_internal allocated a context
    lpc,                    \* the step bus_init_internal is at, "idle" outside it
    queues_exist,           \* to_slave_queue[] # NULL
    sem_exists,             \* sem_to_slave_queue # NULL
    to_slave_queue,         \* [Prio -> Seq(Buffers)]
    sem_to_slave_queue,     \* the semaphore's count
    usb_start_write_thread,
    wpc, wprio, wbuf,       \* h_usb_write_task: position, loop index, local buf_handle
    cpc, cbuf, cprio,       \* each caller inside esp_hosted_tx
    accepted,               \* ghost: handles esp_hosted_tx queued (returned ESP_OK)
    released,               \* ghost: [Buffers -> Nat], calls of buf_handle.func
    leaked,                 \* ghost: freeable handles dropped without a release
    freedAccess,            \* ghost: a deleted queue or semaphore was used
    owed                    \* history: priorities non-empty when the write task
                            \* last took a count and not yet received from since

life    == <<usb_context, gen, lpc, queues_exist, sem_exists>>
writer  == <<wpc, wprio, wbuf>>
callers == <<cpc, cbuf, cprio>>
ghosts  == <<accepted, released, leaked, freedAccess, owed>>
vars == <<life, to_slave_queue, sem_to_slave_queue,
          usb_start_write_thread, writer, callers, ghosts>>

Queued == UNION {ToSet(to_slave_queue[p]) : p \in Prio}

\* A handle a caller may pass: never queued before and not in another call.
Owned(b) == /\ b \notin accepted
            /\ \A c \in Callers : cpc[c] = "idle" \/ cbuf[c] # b

EmptyBank == [p \in Prio |-> <<>>]

-----------------------------------------------------------------------------
(* bus_init_internal runs in the caller's task, one creation after        *)
(* another: usb_context is allocated (a failed H_CALLOC returns NULL and   *)
(* changes nothing), then the queues, then the semaphores, then the tasks. *)
(* esp_hosted_tx can run between any two of these steps. A failed         *)
(* creation goes to cleanup, which is bus_deinit_internal.                 *)
(* usb_start_write_thread is never reset. Unlike hosted_usb_init,          *)
(* bus_init_internal has no already-initialised check: the model assumes   *)
(* the transport layer calls it only while torn down (~usb_context).       *)
bus_init_internal_alloc ==
    /\ lpc = "idle"
    /\ ~usb_context
    /\ gen < MaxInits
    /\ usb_context' = TRUE
    /\ gen' = gen + 1
    /\ lpc' = "queues"
    /\ UNCHANGED <<queues_exist, sem_exists, to_slave_queue, sem_to_slave_queue,
                   usb_start_write_thread, writer, callers, ghosts>>

bus_init_internal_queues ==
    /\ lpc = "queues"
    /\ queues_exist' = TRUE
    /\ to_slave_queue' = EmptyBank
    /\ lpc' = "sems"
    /\ UNCHANGED <<usb_context, gen, sem_exists, sem_to_slave_queue,
                   usb_start_write_thread, writer, callers, ghosts>>

bus_init_internal_sems ==
    /\ lpc = "sems"
    /\ sem_exists' = TRUE
    /\ sem_to_slave_queue' = 0
    /\ lpc' = "tasks"
    /\ UNCHANGED <<usb_context, gen, queues_exist, to_slave_queue,
                   usb_start_write_thread, writer, callers, ghosts>>

bus_init_internal_tasks ==
    /\ lpc = "tasks"
    /\ wpc' = "wait" /\ wprio' = 0 /\ wbuf' = NoBuf
    /\ lpc' = "idle"
    /\ UNCHANGED <<usb_context, gen, queues_exist, sem_exists, to_slave_queue,
                   sem_to_slave_queue, usb_start_write_thread, callers, ghosts>>

(* bus_deinit_internal: deletes the tasks (the write task wherever it is), *)
(* then the queues with whatever they hold, then the semaphores and the   *)
(* context. Nothing releases the handles still queued or held.            *)
Teardown ==
    /\ LET held == IF wpc = "release" THEN {wbuf} ELSE {}
       IN  leaked' = leaked \cup ((Queued \cup held) \cap Freeable)
    /\ usb_context' = FALSE
    /\ queues_exist' = FALSE
    /\ sem_exists' = FALSE
    /\ to_slave_queue' = EmptyBank
    /\ sem_to_slave_queue' = 0
    /\ wpc' = "none" /\ wprio' = 0 /\ wbuf' = NoBuf
    /\ lpc' = "idle"
    /\ owed' = {}
    /\ UNCHANGED <<gen, usb_start_write_thread, callers,
                   accepted, released, freedAccess>>

(* A creation step of bus_init_internal fails: goto cleanup.               *)
bus_init_internal_cleanup ==
    /\ lpc \in {"queues", "sems", "tasks"}
    /\ Teardown

bus_deinit_internal ==
    /\ lpc = "idle"
    /\ usb_context
    /\ Teardown

-----------------------------------------------------------------------------
(* esp_hosted_tx, first step: usb_context is checked, the handle is       *)
(* filled in and to_slave_queue[prio] is tested for NULL; prio comes from  *)
(* the caller's flags. A NULL context or queue returns ESP_FAIL and        *)
(* changes nothing, so only the call that goes on is a step.               *)
esp_hosted_tx_check(c, b, p) ==
    /\ cpc[c] = "idle"
    /\ Owned(b)
    /\ usb_context
    /\ queues_exist
    /\ cpc' = [cpc EXCEPT ![c] = "send"]
    /\ cbuf' = [cbuf EXCEPT ![c] = b]
    /\ cprio' = [cprio EXCEPT ![c] = p]
    /\ UNCHANGED <<life, to_slave_queue, sem_to_slave_queue,
                   usb_start_write_thread, writer, ghosts>>

\* Mutant: the handle is put at the front of its queue (xQueueSendToFront).
esp_hosted_tx_send_to_front(c) ==
    /\ cpc[c] = "send"
    /\ LET p == cprio[c]
           b == cbuf[c]
       IN  \/ /\ ~queues_exist
              /\ freedAccess' = TRUE
              /\ cpc' = [cpc EXCEPT ![c] = "idle"]
              /\ UNCHANGED <<to_slave_queue, accepted>>
           \/ /\ queues_exist
              /\ Len(to_slave_queue[p]) = TxQueueSize
              /\ cpc' = [cpc EXCEPT ![c] = "idle"]
              /\ UNCHANGED <<to_slave_queue, accepted, freedAccess>>
           \/ /\ queues_exist
              /\ Len(to_slave_queue[p]) < TxQueueSize
              /\ to_slave_queue' = [to_slave_queue EXCEPT ![p] = <<b>> \o @]
              /\ accepted' = accepted \cup {b}
              /\ cpc' = [cpc EXCEPT ![c] = "post"]
              /\ UNCHANGED freedAccess
    /\ UNCHANGED <<life, sem_to_slave_queue, usb_start_write_thread,
                   writer, cbuf, cprio, released, leaked, owed>>

(* esp_hosted_tx, second step: H_PLATFORM_Q_SEND(to_slave_queue[prio],    *)
(* .., 0), which reads the queue pointer again after the NULL test. If     *)
(* bus_deinit_internal ran in between, the pointer read is NULL; if a      *)
(* later bus_init_internal also ran, it is that call's new queue. A full   *)
(* queue fails at once and the caller keeps b.                             *)
esp_hosted_tx_send(c) ==
    /\ cpc[c] = "send"
    /\ LET p == cprio[c]
           b == cbuf[c]
       IN  \/ /\ ~queues_exist
              /\ freedAccess' = TRUE
              /\ cpc' = [cpc EXCEPT ![c] = "idle"]
              /\ UNCHANGED <<to_slave_queue, accepted>>
           \/ /\ queues_exist
              /\ Len(to_slave_queue[p]) = TxQueueSize
              /\ cpc' = [cpc EXCEPT ![c] = "idle"]
              /\ UNCHANGED <<to_slave_queue, accepted, freedAccess>>
           \/ /\ queues_exist
              /\ Len(to_slave_queue[p]) < TxQueueSize
              /\ to_slave_queue' = [to_slave_queue EXCEPT ![p] = Append(@, b)]
              /\ accepted' = accepted \cup {b}
              /\ cpc' = [cpc EXCEPT ![c] = "post"]
              /\ UNCHANGED freedAccess
    /\ UNCHANGED <<life, sem_to_slave_queue, usb_start_write_thread,
                   writer, cbuf, cprio, released, leaked, owed>>

(* esp_hosted_tx, third step: if (sem_to_slave_queue) tests the          *)
(* semaphore pointer. A NULL semaphore is skipped: usb_start_write_thread  *)
(* is set and the call returns ESP_OK.                                     *)
esp_hosted_tx_post(c) ==
    /\ cpc[c] = "post"
    /\ \/ /\ sem_exists
          /\ cpc' = [cpc EXCEPT ![c] = "give"]
          /\ UNCHANGED usb_start_write_thread
       \/ /\ ~sem_exists
          /\ usb_start_write_thread' = TRUE
          /\ cpc' = [cpc EXCEPT ![c] = "idle"]
    /\ UNCHANGED <<life, to_slave_queue, sem_to_slave_queue, writer,
                   cbuf, cprio, ghosts>>

(* esp_hosted_tx, fourth step: H_PLATFORM_SEM_POST(sem_to_slave_queue)     *)
(* reads the pointer again (NULL if bus_deinit_internal ran since the      *)
(* test); a give at the maximum count fails and is ignored. Then           *)
(* usb_start_write_thread is set.                                          *)
esp_hosted_tx_give(c) ==
    /\ cpc[c] = "give"
    /\ \/ /\ sem_exists
          /\ sem_to_slave_queue' = IF sem_to_slave_queue < SemMaxCount
                                  THEN sem_to_slave_queue + 1
                                  ELSE sem_to_slave_queue
          /\ UNCHANGED freedAccess
       \/ /\ ~sem_exists
          /\ freedAccess' = TRUE
          /\ UNCHANGED sem_to_slave_queue
    /\ usb_start_write_thread' = TRUE
    /\ cpc' = [cpc EXCEPT ![c] = "idle"]
    /\ UNCHANGED <<life, to_slave_queue, writer, cbuf, cprio,
                   accepted, released, leaked, owed>>

-----------------------------------------------------------------------------
(* h_usb_write_task. The loop spins while usb_start_write_thread is false; *)
(* then it takes one count and makes one non-blocking receive per priority *)
(* in index order, calling the handle's free function after each receive. *)
\* Mutant: the priority loop stops one short (prio < MAX_PRIORITY_QUEUES - 1).
Advance_skip_last(p) ==
    IF p >= NumPrio - 2
    THEN wpc' = "wait" /\ wprio' = 0
    ELSE wpc' = "recv" /\ wprio' = p + 1

Advance(p) ==
    IF p = NumPrio - 1
    THEN wpc' = "wait" /\ wprio' = 0
    ELSE wpc' = "recv" /\ wprio' = p + 1

\* Mutant: the result of H_PLATFORM_SEM_WAIT is not checked.
h_usb_write_task_wait_ignore_result ==
    /\ wpc = "wait"
    /\ usb_start_write_thread
    /\ sem_to_slave_queue' = sem_to_slave_queue - 1
    /\ wpc' = "recv" /\ wprio' = 0
    /\ owed' = {p \in Prio : to_slave_queue[p] # <<>>}
    /\ UNCHANGED <<life, to_slave_queue, usb_start_write_thread,
                   wbuf, callers, accepted, released, leaked, freedAccess>>

h_usb_write_task_wait ==
    /\ wpc = "wait"
    /\ usb_start_write_thread
    /\ sem_to_slave_queue > 0
    /\ sem_to_slave_queue' = sem_to_slave_queue - 1
    /\ wpc' = "recv" /\ wprio' = 0
    /\ owed' = {p \in Prio : to_slave_queue[p] # <<>>}
    /\ UNCHANGED <<life, to_slave_queue, usb_start_write_thread,
                   wbuf, callers, accepted, released, leaked, freedAccess>>

\* Mutant: the result of H_PLATFORM_Q_RECEIVE is ignored, so an empty queue
\* leaves the previous handle in the local buf_handle and it is freed again.
h_usb_write_task_recv_ignore_result ==
    /\ wpc = "recv"
    /\ \/ /\ to_slave_queue[wprio] # <<>>
          /\ wbuf' = Head(to_slave_queue[wprio])
          /\ to_slave_queue' = [to_slave_queue EXCEPT ![wprio] = Tail(@)]
       \/ /\ to_slave_queue[wprio] = <<>>
          /\ UNCHANGED <<wbuf, to_slave_queue>>
    /\ wpc' = "release"
    /\ owed' = owed \ {wprio}
    /\ UNCHANGED <<wprio, life, sem_to_slave_queue, usb_start_write_thread,
                   callers, accepted, released, leaked, freedAccess>>

h_usb_write_task_recv ==
    /\ wpc = "recv"
    /\ \/ /\ to_slave_queue[wprio] # <<>>
          /\ wbuf' = Head(to_slave_queue[wprio])
          /\ to_slave_queue' = [to_slave_queue EXCEPT ![wprio] = Tail(@)]
          /\ wpc' = "release"
          /\ owed' = owed \ {wprio}
          /\ UNCHANGED wprio
       \/ /\ to_slave_queue[wprio] = <<>>
          /\ Advance(wprio)
          /\ UNCHANGED <<wbuf, to_slave_queue, owed>>
    /\ UNCHANGED <<life, sem_to_slave_queue, usb_start_write_thread,
                   callers, accepted, released, leaked, freedAccess>>

\* Mutant: the loop breaks after the first handle it sends.
h_usb_write_task_release_break ==
    /\ wpc = "release"
    /\ released' = IF wbuf \in Freeable
                   THEN [released EXCEPT ![wbuf] = @ + 1] ELSE released
    /\ wpc' = "wait" /\ wprio' = 0
    /\ UNCHANGED <<life, to_slave_queue, sem_to_slave_queue,
                   usb_start_write_thread, wbuf, callers,
                   accepted, leaked, freedAccess, owed>>

h_usb_write_task_release ==
    /\ wpc = "release"
    /\ released' = IF wbuf \in Freeable
                   THEN [released EXCEPT ![wbuf] = @ + 1] ELSE released
    /\ Advance(wprio)
    /\ UNCHANGED <<life, to_slave_queue, sem_to_slave_queue,
                   usb_start_write_thread, wbuf, callers,
                   accepted, leaked, freedAccess, owed>>

-----------------------------------------------------------------------------
Init ==
    /\ usb_context = FALSE
    /\ gen = 0
    /\ lpc = "idle"
    /\ queues_exist = FALSE
    /\ sem_exists = FALSE
    /\ to_slave_queue = EmptyBank
    /\ sem_to_slave_queue = 0
    /\ usb_start_write_thread = FALSE
    /\ wpc = "none" /\ wprio = 0 /\ wbuf = NoBuf
    /\ cpc = [c \in Callers |-> "idle"]
    /\ cbuf = [c \in Callers |-> NoBuf]
    /\ cprio = [c \in Callers |-> 0]
    /\ accepted = {}
    /\ released = [b \in Buffers |-> 0]
    /\ leaked = {}
    /\ freedAccess = FALSE
    /\ owed = {}

\* The steps of a bus_init_internal call already under way.
InitSteps ==
    \/ bus_init_internal_queues
    \/ bus_init_internal_sems
    \/ bus_init_internal_tasks
    \/ bus_init_internal_cleanup

WriterNext ==
    \/ h_usb_write_task_wait
    \/ h_usb_write_task_recv
    \/ h_usb_write_task_release

Next ==
    \/ bus_init_internal_alloc
    \/ InitSteps
    \/ bus_deinit_internal
    \/ \E c \in Callers, b \in Buffers, p \in Prio : esp_hosted_tx_check(c, b, p)
    \/ \E c \in Callers : \/ esp_hosted_tx_send(c)
                         \/ esp_hosted_tx_post(c)
                         \/ esp_hosted_tx_give(c)
    \/ WriterNext

\* The write task is a FreeRTOS task that runs whenever it is ready, and a
\* bus_init_internal call, once begun, runs to its end in the calling task;
\* the callers, and whether init or deinit is called at all, are the
\* application's and may stop.
Spec == Init /\ [][Next]_vars /\ WF_vars(WriterNext) /\ WF_vars(InitSteps)

-----------------------------------------------------------------------------
TypeOK ==
    /\ usb_context \in BOOLEAN
    /\ gen \in 0 .. MaxInits
    /\ lpc \in {"idle", "queues", "sems", "tasks"}
    /\ queues_exist \in BOOLEAN
    /\ sem_exists \in BOOLEAN
    /\ to_slave_queue \in [Prio -> Seq(Buffers)]
    /\ \A p \in Prio : Len(to_slave_queue[p]) <= TxQueueSize
    /\ sem_to_slave_queue \in 0 .. SemMaxCount
    /\ usb_start_write_thread \in BOOLEAN
    /\ wpc \in {"none", "wait", "recv", "release"}
    /\ wprio \in Prio
    /\ wbuf \in Buffers \cup {NoBuf}
    /\ cpc \in [Callers -> {"idle", "send", "post", "give"}]
    /\ cbuf \in [Callers -> Buffers \cup {NoBuf}]
    /\ cprio \in [Callers -> Prio]
    /\ accepted \subseteq Buffers
    /\ released \in [Buffers -> Nat]
    /\ leaked \subseteq Freeable
    /\ freedAccess \in BOOLEAN
    /\ owed \subseteq Prio

(* Release safety (spec: one release per buffer handle). The write task    *)
(* calls a handle's free function at most once, only for a handle          *)
(* esp_hosted_tx accepted, and only after the handle has left the queues   *)
(* and the task's local buf_handle.                                        *)
ReleaseAtMostOnce ==
    \A b \in Buffers :
        /\ released[b] <= (IF b \in accepted THEN 1 ELSE 0)
        /\ released[b] > 0 => b \notin Queued \cup (IF wpc = "release" THEN {wbuf} ELSE {})

(* No lost wake-up: whenever the write task is blocked on an empty         *)
(* semaphore and no caller is between its Q_SEND and its SEM_POST, every   *)
(* to_slave_queue is empty; otherwise a queued buffer waits for a post     *)
(* that may never come.                                                    *)
NoStrandedBuffer ==
    (/\ usb_context /\ wpc = "wait" /\ sem_to_slave_queue = 0
     /\ \A c \in Callers : cpc[c] \notin {"post", "give"})
        => Queued = {}

(* Sweep order (spec: one count drains the ready items in priority        *)
(* order). Every priority whose queue was non-empty when the write task    *)
(* took its count has had its head received by the time the task waits    *)
(* again: a sweep skips no queue that was ready at its start, so a handle  *)
(* at a head is delayed by at most the one sweep already under way, and   *)
(* a handle that arrives behind the sweep waits for the next count.       *)
SweepServesHeads ==
    /\ wpc \in {"wait", "none"} => owed = {}
    /\ wpc \in {"recv", "release"} => \A p \in owed : p >= wprio

(* Teardown releases (spec 4.7): bus_deinit_internal never drops a         *)
(* freeable handle that is still queued or held by the write task.         *)
TeardownReleasesQueued == leaked = {}

(* esp_hosted_tx never hands a queue or semaphore that                     *)
(* bus_deinit_internal deleted to H_PLATFORM_Q_SEND or SEM_POST.           *)
NoUseAfterFree == ~freedAccess

(* Progress of the write task: a buffer at the head of its priority queue  *)
(* while the semaphore holds a count is eventually taken off the queue,    *)
(* unless the transport is torn down.                                      *)
SignalledHeadIsTaken ==
    \A b \in Buffers, p \in Prio :
        (/\ usb_context /\ sem_to_slave_queue > 0
         /\ to_slave_queue[p] # <<>> /\ Head(to_slave_queue[p]) = b)
            ~> (b \notin Queued \/ ~usb_context)

(* The outbound bank implements PriorityBank: seen through the mapping     *)
(* below, esp_hosted_tx enqueues at the tail of its priority, the write    *)
(* task consumes heads (a handle it has received but not yet freed is      *)
(* still the head of its queue), and bus_deinit_internal is a teardown.   *)
(* This is per-priority FIFO order and at-most-once consumption across     *)
(* every interleaving of callers, the write task and the lifecycle.       *)
HeldBank ==
    [p \in Prio |-> IF wpc = "release" /\ wprio = p
                    THEN <<wbuf>> \o to_slave_queue[p]
                    ELSE to_slave_queue[p]]

Bank == INSTANCE PriorityBank
            WITH Handles <- Buffers, Tracked <- Freeable,
                 bank <- HeldBank,
                 consumed <- {b \in Freeable : released[b] > 0}

ImplementsPriorityBank == Bank!Spec
=============================================================================
