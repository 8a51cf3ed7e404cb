------------------------------- MODULE TschLock -------------------------------
(***************************************************************************)
(* The TSCH lock of tsch-slot-operation.c: the protocol between a process  *)
(* that manipulates TSCH's data structures (tsch_get_lock ...              *)
(* tsch_release_lock) and the slot operation, which runs in the rtimer     *)
(* interrupt and in between yields to the processes.                       *)
(*                                                                         *)
(* Processes do not preempt each other, so there is one main program.  It  *)
(* may be interrupted between any two of its steps; a segment of the slot  *)
(* operation is not interrupted.                                           *)
(***************************************************************************)

VARIABLES
    tsch_locked,
    tsch_lock_requested,
    main,   \* where the main program is, relative to the lock
    slot    \* what the slot operation is doing

lockVars == <<tsch_locked, tsch_lock_requested, main, slot>>

MainStates == {"out",           \* outside tsch_get_lock, without the lock
               "requested",     \* busy waiting for the slot to end
               "taken",         \* has set tsch_locked
               "in"}            \* has the lock
SlotStates == {"none", "off", "tx", "rx"}

\* Faulty variant: the busy wait waits for its own request to go away
inSlotOrRequested == slot # "none" \/ tsch_lock_requested

\* tsch_in_slot_operation is set when a slot operation starts and reset when
\* the next one has been scheduled
tsch_in_slot_operation == slot # "none"

LockInit == /\ tsch_locked = FALSE
            /\ tsch_lock_requested = FALSE
            /\ main = "out"
            /\ slot = "none"

-----------------------------------------------------------------------------
(* tsch_get_lock and tsch_release_lock.  Called with the lock already held, *)
(* tsch_get_lock only returns 0.                                            *)

Request == /\ main = "out" /\ ~tsch_locked
           /\ tsch_lock_requested' = TRUE
           /\ main' = "requested"
           /\ UNCHANGED <<tsch_locked, slot>>

\* Faulty variant: the slot in progress is not waited for
TakeAtOnce == /\ main = "requested"
              /\ tsch_locked' = TRUE
              /\ main' = "taken"
              /\ UNCHANGED <<tsch_lock_requested, slot>>

\* The busy wait ends and the lock is taken
Take == /\ main = "requested"
        /\ ~tsch_in_slot_operation
        /\ tsch_locked' = TRUE
        /\ main' = "taken"
        /\ UNCHANGED <<tsch_lock_requested, slot>>

\* Faulty variant: the request is never withdrawn
keepRequest == /\ main = "taken"
               /\ main' = "in"
               /\ UNCHANGED <<tsch_locked, tsch_lock_requested, slot>>

\* From here on slots may start again, although TSCH is locked
ClearRequest == /\ main = "taken"
                /\ tsch_lock_requested' = FALSE
                /\ main' = "in"
                /\ UNCHANGED <<tsch_locked, slot>>

tsch_release_lock == /\ main = "in"
                     /\ tsch_locked' = FALSE
                     /\ main' = "out"
                     /\ UNCHANGED <<tsch_lock_requested, slot>>

-----------------------------------------------------------------------------
(* The slot operation *)

\* A slot is skipped while there is a request, but not while TSCH is locked;
\* then, however, tsch_queue_get_packet_for_nbr has no packet to transmit
StartSlot(kind) == /\ slot = "none"
                   /\ ~tsch_lock_requested
                   /\ kind = "tx" => ~tsch_locked
                   /\ slot' = kind
                   /\ UNCHANGED <<tsch_locked, tsch_lock_requested, main>>

EndSlot == /\ slot # "none"
           /\ slot' = "none"
           /\ UNCHANGED <<tsch_locked, tsch_lock_requested, main>>

LockNext == \/ Request \/ Take \/ ClearRequest \/ tsch_release_lock
            \/ \E kind \in SlotStates \ {"none"} : StartSlot(kind)
            \/ EndSlot

LockSpec == LockInit /\ [][LockNext]_lockVars

-----------------------------------------------------------------------------
(* Properties *)

LockTypeOK == /\ tsch_locked \in BOOLEAN
              /\ tsch_lock_requested \in BOOLEAN
              /\ main \in MainStates
              /\ slot \in SlotStates

\* While the main program has the lock, no transmission is in progress: the
\* link, the neighbor and the packet that tsch_tx_slot holds across its
\* yields are not removed under it.
TxExcludesLock == tsch_locked => slot # "tx"
=============================================================================
