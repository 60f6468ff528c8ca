--------------------------- MODULE MCLockFreeQueue ---------------------------
(* Two queues on small instances, checked one at a time: one on which PushOps *)
(* and OwnerOps are called, and one, its members prefixed own_, on which the  *)
(* owner calls everything, reserve() and forced pushes included.              *)
EXTENDS LockFreeQueue

CONSTANTS
    OwnCapacity, OwnNewCapacities,       \* the capacities of the second one
    OwnModulus, OwnPushes, OwnPops       \* and its bounds

VARIABLES
    subject,
    own_read, own_write, own_max_read, own_size, own_buffer, own_capacity,
    own_pc, own_op, own_value, own_slot, own_outcome, own_issued,
    own_cpc, own_cslot, own_popped, own_peeked, own_accepted, own_delivered

ownVars == <<own_read, own_write, own_max_read, own_size, own_buffer, own_capacity,
             own_pc, own_op, own_value, own_slot, own_outcome, own_issued,
             own_cpc, own_cslot, own_popped, own_peeked, own_accepted, own_delivered>>

Own == INSTANCE LockFreeQueue WITH
    PushOps <- {"try_push_back", "force_push_back"},
    OwnerOps <- {"front", "clear", "reserve", "move"},
    InitialCapacity <- OwnCapacity, NewCapacities <- OwnNewCapacities,
    CounterModulus <- OwnModulus, MaxPushes <- OwnPushes, MaxPops <- OwnPops,
    m_read <- own_read, m_write <- own_write, m_max_read <- own_max_read, m_size <- own_size,
    m_buffer <- own_buffer, m_capacity <- own_capacity,
    pc <- own_pc, op <- own_op, value <- own_value, slot <- own_slot,
    outcome <- own_outcome, issued <- own_issued,
    cpc <- own_cpc, cslot <- own_cslot, popped <- own_popped, peeked <- own_peeked,
    accepted <- own_accepted, delivered <- own_delivered

MCInit ==
    \/ subject = "threads" /\ Init /\ Own!InitEmpty
    \/ subject = "owner" /\ InitEmpty /\ Own!Init

MCNext ==
    /\ UNCHANGED subject
    /\ \/ subject = "threads" /\ Next /\ UNCHANGED ownVars
       \/ subject = "owner" /\ Own!Next /\ UNCHANGED vars

(* Fairness, of the behaviours that are about the first queue. *)
MCFairness ==
    /\ WF_vars(subject = "threads" /\ ConsumerStep)
    /\ \A p \in Producers : WF_vars(subject = "threads" /\ ProducerStep(p))

MCSpec == MCInit /\ [][MCNext]_<<subject, vars, ownVars>> /\ MCFairness

(* ReserveKeepsOldest of the second queue: what reserve() carries over, the   *)
(* oldest m_capacity - 1 elements that wait, it carries over in order,        *)
(* wherever the ring begins (LockFreeQueue.h:180-:204).                       *)
OwnReserveKeepsOldest == Own!ReserveKeepsOldest
=============================================================================
