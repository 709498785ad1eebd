---------------------------- MODULE PriorityBank ----------------------------
(***************************************************************************)
(* What a Priority Queue Bank of the link layer promises (spec.md, 4.2 and *)
(* the Buffer Handle invariant), independent of how a pump drains it: one  *)
(* FIFO per priority, a handle enters at most once, a consumer takes the   *)
(* head of some queue, and teardown may drop whatever is still inside.     *)
(* Both pumps of usb_drv.c are shown to implement it: UsbDrvTx and         *)
(* UsbDrvRx instantiate this module with a refinement mapping and check    *)
(* Spec as a PROPERTY.                                                     *)
(***************************************************************************)
EXTENDS Sequences, SequencesExt

CONSTANTS
    Handles,    \* buffer handles that can enter the bank
    Tracked,    \* handles whose consumption the bank records
    Prio        \* the priorities

VARIABLES
    bank,       \* [Prio -> Seq(Handles)]: queued, or taken but not yet consumed
    accepted,   \* handles that ever entered the bank
    consumed    \* tracked handles a consumer has finished with

vars == <<bank, accepted, consumed>>

Init ==
    /\ bank = [p \in Prio |-> <<>>]
    /\ accepted = {}
    /\ consumed = {}

\* A producer hands a handle over once; a full queue refuses (a stutter).
Enqueue(b, p) ==
    /\ b \notin accepted
    /\ bank' = [bank EXCEPT ![p] = Append(@, b)]
    /\ accepted' = accepted \cup {b}
    /\ UNCHANGED consumed

\* The pump finishes with the oldest handle of one priority.
Consume(p) ==
    /\ bank[p] # <<>>
    /\ consumed' = consumed \cup ({Head(bank[p])} \cap Tracked)
    /\ bank' = [bank EXCEPT ![p] = Tail(@)]
    /\ UNCHANGED accepted

\* Teardown drops everything still in the bank.
Teardown ==
    /\ bank' = [p \in Prio |-> <<>>]
    /\ UNCHANGED <<accepted, consumed>>

Next ==
    \/ \E b \in Handles, p \in Prio : Enqueue(b, p)
    \/ \E p \in Prio : Consume(p)
    \/ Teardown

Spec == Init /\ [][Next]_vars
=============================================================================
