---------------------------- MODULE MCRingBuffer ----------------------------
(* Two ring buffers on small instances, checked one at a time: one on which *)
(* Calls are called, and one, its members prefixed all_, on which every     *)
(* operation is called, the defective ones included.                        *)
EXTENDS RingBuffer, TLC

CONSTANTS
    AllCapacity,       \* the capacity of the second one
    AllNewCapacities   \* what it is asked to reserve

VARIABLES
    subject,
    all_buffer, all_constructed, all_write_index, all_start_index, all_capacity,
    all_it_index, all_it_slot, all_returned, all_undefined, all_destroyed

allVars == <<all_buffer, all_constructed, all_write_index, all_start_index, all_capacity,
             all_it_index, all_it_slot, all_returned, all_undefined, all_destroyed>>

All == INSTANCE RingBuffer WITH
    Calls <- AllCalls, InitialCapacity <- AllCapacity, NewCapacities <- AllNewCapacities,
    m_buffer <- all_buffer, m_constructed <- all_constructed,
    m_write_index <- all_write_index, m_start_index <- all_start_index,
    m_capacity <- all_capacity, it_index <- all_it_index, it_slot <- all_it_slot,
    returned <- all_returned, undefined <- all_undefined, destroyed <- all_destroyed

MCInit ==
    \/ subject = "Calls" /\ Init /\ All!InitEmpty
    \/ subject = "AllCalls" /\ InitEmpty /\ All!Init

MCNext ==
    /\ UNCHANGED subject
    /\ \/ subject = "Calls" /\ Next /\ UNCHANGED allVars
       \/ subject = "AllCalls" /\ All!Next /\ UNCHANGED vars

MCSpec == MCInit /\ [][MCNext]_<<subject, vars, allVars>>

(* The buffer looks at no element. *)
Symmetry == Permutations(Elements)

(* NoElementTwice of the second buffer: whatever is called, no object is in *)
(* two slots of the ring at once, although insert, erase and reserve move   *)
(* objects one at a time (RingBuffer.h:603, :1227).                         *)
AllNoElementTwice == All!NoElementTwice

(* IteratorPointsAtItsIndex of the second buffer: an iterator that is moved *)
(* points at the slot of its index, across the end of the storage           *)
(* (RingBuffer.h:120-:213).                                                 *)
AllIteratorPointsAtItsIndex == All!IteratorPointsAtItsIndex
=============================================================================
