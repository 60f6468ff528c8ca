----------------------------- MODULE RingBuffer -----------------------------
(***************************************************************************)
(* hyperion::RingBuffer<T> (include/Hyperion/RingBuffer.h): a ring of      *)
(* m_capacity slots, one of which is the spacer that end() points to, with *)
(* an API like that of std::deque.  One action is one call.                *)
(*                                                                         *)
(* The buffer manages raw storage: it constructs and destroys the objects  *)
(* in it by hand and keeps in m_constructed which slots hold one.  A slot  *)
(* of the model holds an element, or Raw when there is no object in it.    *)
(* Destroying, reading or assigning to an object that is not there, or     *)
(* touching a slot or a flag outside its array, is undefined; the model    *)
(* records it in undefined and the run ends there.  T has a destructor     *)
(* that is not trivial, like the TestClass of tests/RingBuffer.cpp.        *)
(***************************************************************************)
EXTENDS Integers, Sequences

CONSTANTS
    Elements,          \* the values that are stored
    InitialCapacity,   \* the constructor's initial_capacity
    NewCapacities,     \* the arguments reserve() is called with
    Calls,             \* the operations that are called
    Raw,               \* a slot without an object
    None               \* the empty Option, and an iterator into freed storage

AllCalls == {"push_back", "pop_front", "pop_back", "insert", "insert_full",
             "erase", "erase_range", "emplace", "clear", "reserve",
             "move_assign", "destroy", "iterate"}

ASSUME RingAssumption ==
    /\ InitialCapacity \in Nat \ {0}
    /\ NewCapacities \subseteq Nat
    /\ Calls \subseteq AllCalls
    /\ Raw \notin Elements /\ None \notin Elements

VARIABLES
    m_buffer, m_constructed,                  \* the slots and their flags
    m_write_index, m_start_index, m_capacity,
    it_index, it_slot,                        \* an Iterator: index and pointer
    returned,                                 \* result of the last pop
    undefined, destroyed

indices  == <<m_write_index, m_start_index, m_capacity>>
iterator == <<it_index, it_slot>>
vars     == <<m_buffer, m_constructed, indices, iterator, returned,
              undefined, destroyed>>

Slots == 0..(m_capacity - 1)

(* get_adjusted_internal_index(index) *)
Adjusted(index) == (m_start_index + index) % m_capacity

(* The user-facing index of a slot: the inverse of Adjusted. *)
IndexOf(k) == (k - m_start_index + m_capacity) % m_capacity

Size == IF m_write_index >= m_start_index
           THEN m_write_index - m_start_index
           ELSE m_capacity - (m_start_index - m_write_index)
Capacity == m_capacity - 1
Full     == Size = m_capacity - 1

(* is_constructed(k), where the flag exists *)
IsConstructed(k) == k \in DOMAIN m_constructed /\ m_constructed[k]

(* Looking at the flag of slot k is undefined: there is no such flag. *)
NoFlag(k) == k \notin DOMAIN m_constructed

(* The flag of slot k says there is an object, and there is none. *)
Dead(k) == IsConstructed(k) /\ m_buffer[k] = Raw

(* set_constructed(k, constructed) *)
SetConstructed(k, constructed) == [m_constructed EXCEPT ![k] = constructed]

(* What the buffer holds, in the order of the indices. *)
Contents == [i \in 1..Size |-> m_buffer[Adjusted(i - 1)]]

(* A value that no object in the storage has. *)
Fresh(e) == \A k \in Slots : m_buffer[k] # e

----------------------------------------------------------------------------
InitRest ==
    /\ m_capacity = InitialCapacity + 1
    /\ m_start_index = 0
    /\ it_index = 0 /\ it_slot = 0
    /\ returned = None
    /\ undefined = FALSE /\ destroyed = FALSE

(* RingBuffer(initial_capacity) *)
InitEmpty ==
    /\ InitRest
    /\ m_buffer = [k \in 0..InitialCapacity |-> Raw]
    /\ m_constructed = [k \in 0..InitialCapacity |-> FALSE]
    /\ m_write_index = 0

(* RingBuffer(initializer_list) *)
InitList ==
    /\ InitRest
    /\ \E values \in [0..(InitialCapacity - 1) -> Elements] :
         /\ \A j, k \in DOMAIN values : j # k => values[j] # values[k]
         /\ m_buffer = [k \in 0..InitialCapacity |->
                           IF k < InitialCapacity THEN values[k] ELSE Raw]
    /\ m_constructed = [k \in 0..InitialCapacity |-> k < InitialCapacity]
    /\ m_write_index = InitialCapacity

Init == InitEmpty \/ InitList

Called(name) == name \in Calls /\ ~ undefined /\ ~ destroyed

----------------------------------------------------------------------------
(* Indices *)

(* Mutant of IncrementIndices: the spacer is given away. *)
IncrementIndices_NoSpacer ==
    /\ m_write_index' = (m_write_index + 1) % m_capacity
    /\ UNCHANGED <<m_start_index, m_capacity>>

(* increment_indices(): the start gives way to keep one spacer slot *)
IncrementIndices ==
    /\ m_write_index' = (m_write_index + 1) % m_capacity
    /\ m_start_index' = IF (m_write_index + 1) % m_capacity = m_start_index
                           THEN (m_start_index + 1) % m_capacity
                           ELSE m_start_index
    /\ UNCHANGED m_capacity

(* Mutant of DecrementedWrite: it wraps one slot too far. *)
DecrementedWrite_OneOver == IF m_write_index = 0 THEN m_capacity ELSE m_write_index - 1

(* decrement_write() *)
DecrementedWrite == IF m_write_index = 0 THEN m_capacity - 1 ELSE m_write_index - 1

(* decrement_write_n(n) *)
DecrementedWriteN(n) ==
    IF n > m_write_index THEN (m_capacity - 1) - (n - m_write_index)
                         ELSE m_write_index - n

----------------------------------------------------------------------------
(* At the ends *)

(* The body of push_back() and emplace_back(): an object still in the write
   slot is destroyed, the new one constructed. *)
Append_(e) ==
    /\ m_buffer' = [m_buffer EXCEPT ![m_write_index] = e]
    /\ m_constructed' = SetConstructed(m_write_index, TRUE)
    /\ undefined' = (NoFlag(m_write_index) \/ Dead(m_write_index))
    /\ IncrementIndices
    /\ UNCHANGED <<iterator, returned, destroyed>>

PushBack(e) == Called("push_back") /\ Fresh(e) /\ Append_(e)

(* Mutant of PopBack: the write index is moved back after the destruction. *)
PopBack_LateDecrement ==
    /\ Called("pop_back")
    /\ IF Size > 0
          THEN /\ returned' = m_buffer[Adjusted(Size - 1)]
               /\ m_write_index' = DecrementedWrite
               /\ m_buffer' = [m_buffer EXCEPT ![m_write_index] = Raw]
               /\ m_constructed' = SetConstructed(m_write_index, FALSE)
               /\ undefined' = (m_buffer[m_write_index] = Raw)
          ELSE /\ returned' = None
               /\ UNCHANGED <<m_write_index, m_buffer, m_constructed, undefined>>
    /\ UNCHANGED <<m_start_index, m_capacity, iterator, destroyed>>

(* pop_back() *)
PopBack ==
    /\ Called("pop_back")
    /\ IF Size > 0
          THEN /\ returned' = m_buffer[Adjusted(Size - 1)]
               /\ m_write_index' = DecrementedWrite
               /\ m_buffer' = [m_buffer EXCEPT ![DecrementedWrite] = Raw]
               /\ m_constructed' = SetConstructed(DecrementedWrite, FALSE)
               /\ undefined' = \/ NoFlag(DecrementedWrite)
                               \/ m_buffer[Adjusted(Size - 1)] = Raw
          ELSE /\ returned' = None
               /\ UNCHANGED <<m_write_index, m_buffer, m_constructed, undefined>>
    /\ UNCHANGED <<m_start_index, m_capacity, iterator, destroyed>>

(* pop_front() and increment_start() *)
PopFront ==
    /\ Called("pop_front")
    /\ IF Size > 0
          THEN /\ returned' = m_buffer[m_start_index]
               /\ m_buffer' = [m_buffer EXCEPT ![m_start_index] = Raw]
               /\ m_constructed' = SetConstructed(m_start_index, FALSE)
               /\ m_start_index' = (m_start_index + 1) % m_capacity
               /\ undefined' = \/ NoFlag(m_start_index)
                               \/ m_buffer[m_start_index] = Raw
          ELSE /\ returned' = None
               /\ UNCHANGED <<m_start_index, m_buffer, m_constructed, undefined>>
    /\ UNCHANGED <<m_write_index, m_capacity, iterator, destroyed>>

----------------------------------------------------------------------------
(* In the middle.  insert and erase make or close a gap by moving a run of
   objects, one at a time and away from the gap, so that each is read before
   its slot is reused: n objects from index first on, each by the same
   distance.  An object whose flag is not set is not moved. *)

InRun(i, first, n) == first <= i /\ i < first + n

(* Mutant of Moved: the source of a move is not destroyed. *)
Moved_Kept(first, n, by) ==
    [k \in Slots |->
        IF InRun(IndexOf(k) - by, first, n) /\ IsConstructed(Adjusted(IndexOf(k) - by))
           THEN m_buffer[Adjusted(IndexOf(k) - by)]
           ELSE m_buffer[k]]

(* The slots after the moves. *)
Moved(first, n, by) ==
    [k \in Slots |->
        IF InRun(IndexOf(k) - by, first, n) /\ IsConstructed(Adjusted(IndexOf(k) - by))
           THEN m_buffer[Adjusted(IndexOf(k) - by)]
        ELSE IF InRun(IndexOf(k), first, n) /\ IsConstructed(k) THEN Raw
        ELSE m_buffer[k]]

(* Mutant of MovedFlags: the flag of the source stays. *)
MovedFlags_Kept(first, n, by) ==
    [k \in DOMAIN m_constructed |->
        \/ InRun(IndexOf(k) - by, first, n) /\ IsConstructed(Adjusted(IndexOf(k) - by))
        \/ m_constructed[k]]

(* The flags after the moves. *)
MovedFlags(first, n, by) ==
    [k \in DOMAIN m_constructed |->
        IF InRun(IndexOf(k) - by, first, n) /\ IsConstructed(Adjusted(IndexOf(k) - by))
           THEN TRUE
        ELSE IF InRun(IndexOf(k), first, n) THEN FALSE
        ELSE m_constructed[k]]

(* One of the moves reads, destroys or assigns to an object that is not there. *)
MoveUndefined(first, n, by) ==
    \E i \in first..(first + n - 1) :
        LET source == Adjusted(i)
            target == Adjusted(i + by)
        IN  \/ NoFlag(source) \/ NoFlag(target) \/ Dead(source)
            \/ IsConstructed(source) /\ Dead(target)

(* insert() and insert_emplace() into a buffer that is not full *)
Insert(pos, e) ==
    /\ Called("insert") /\ ~ Full /\ Fresh(e)
    /\ IF Adjusted(pos) = m_write_index
          THEN Append_(e)
          ELSE LET n     == Size - pos
                   index == Adjusted(pos)
               IN  /\ m_buffer' = [Moved(pos, n, 1) EXCEPT ![index] = e]
                   /\ m_constructed' = [MovedFlags(pos, n, 1) EXCEPT ![index] = TRUE]
                   /\ undefined' = MoveUndefined(pos, n, 1)
                   /\ IncrementIndices
                   /\ UNCHANGED <<iterator, returned, destroyed>>

(* The same functions on a full buffer: one object fewer is moved, each by two
   slots, and the new one goes to the slot after index, which is not reduced
   by m_capacity. *)
InsertFull(pos, e) ==
    /\ Called("insert_full") /\ Full /\ Fresh(e)
    /\ IF Adjusted(pos) = m_write_index
          THEN Append_(e)
          ELSE LET n     == Size - pos - 1
                   index == Adjusted(pos) + 1
               IN  /\ m_buffer' = [Moved(pos, n, 2) EXCEPT ![index] = e]
                   /\ m_constructed' = [MovedFlags(pos, n, 2) EXCEPT ![index] = TRUE]
                   /\ undefined' = \/ MoveUndefined(pos, n, 2)
                                   \/ index \notin Slots \/ NoFlag(index)
                                   \/ /\ MovedFlags(pos, n, 2)[index]
                                      /\ Moved(pos, n, 2)[index] = Raw
                   /\ IncrementIndices
                   /\ UNCHANGED <<iterator, returned, destroyed>>

(* erase(position): the iterator it returns is begin() + pos, or end() *)
Erase(pos) ==
    /\ Called("erase")
    /\ IF Adjusted(pos) = m_write_index
          THEN /\ it_index' = Size /\ it_slot' = m_write_index
               /\ UNCHANGED <<m_buffer, m_constructed, m_write_index, undefined>>
          ELSE LET n == (Size - 1) - pos
               IN  /\ m_buffer' = Moved(pos + 1, n, -1)
                   /\ m_constructed' = MovedFlags(pos + 1, n, -1)
                   /\ undefined' = MoveUndefined(pos + 1, n, -1)
                   /\ m_write_index' = DecrementedWrite
                   /\ it_index' = pos /\ it_slot' = Adjusted(pos)
    /\ UNCHANGED <<m_start_index, m_capacity, returned, destroyed>>

(* erase(first, last), first < last.  When the slot of last lies behind the
   write index nothing is moved and only the write index is set back. *)
CutBack(n) ==
    IF m_write_index > m_start_index THEN DecrementedWriteN(n)
    ELSE IF m_write_index = m_start_index THEN m_write_index
    ELSE LET after == IF m_write_index > n THEN m_write_index - n ELSE 0
         IN  IF after > 0 THEN (m_capacity - 1) - (after - 1)
                          ELSE DecrementedWriteN(n)

EraseRange(first, last) ==
    /\ Called("erase_range") /\ first < last
    /\ LET n == Size - last
           w == IF Adjusted(last) > m_write_index THEN CutBack(last - first)
                                                 ELSE DecrementedWriteN(last - first)
       IN  IF Adjusted(last) > m_write_index
              THEN /\ m_write_index' = w
                   /\ it_slot' = w
                   /\ it_index' = IF w >= m_start_index THEN w - m_start_index
                                  ELSE m_capacity - (m_start_index - w)
                   /\ UNCHANGED <<m_buffer, m_constructed, undefined>>
              ELSE /\ m_buffer' = Moved(last, n, first - last)
                   /\ m_constructed' = MovedFlags(last, n, first - last)
                   /\ undefined' = MoveUndefined(last, n, first - last)
                   /\ m_write_index' = w
                   /\ it_index' = first /\ it_slot' = Adjusted(first)
    /\ UNCHANGED <<m_start_index, m_capacity, returned, destroyed>>

(* emplace(position): if there is an object at position, the one in the write
   slot is destroyed. *)
Emplace(pos, e) ==
    /\ Called("emplace") /\ Fresh(e)
    /\ LET index == Adjusted(pos)
       IN  /\ m_buffer' = [k \in Slots |->
                             IF k = index THEN e
                             ELSE IF k = m_write_index /\ IsConstructed(index) THEN Raw
                             ELSE m_buffer[k]]
           /\ m_constructed' = SetConstructed(index, TRUE)
           /\ undefined' = \/ NoFlag(index)
                           \/ IsConstructed(index) /\ m_buffer[m_write_index] = Raw
    /\ UNCHANGED <<indices, iterator, returned, destroyed>>

----------------------------------------------------------------------------
(* The whole buffer *)

(* The slots with every object the buffer holds destroyed. *)
Emptied == [k \in Slots |-> IF IndexOf(k) < Size THEN Raw ELSE m_buffer[k]]

(* clear(): the objects are destroyed in their slots, the flags cleared by
   user-facing index. *)
Clear ==
    /\ Called("clear")
    /\ m_buffer' = Emptied
    /\ m_constructed' = [k \in DOMAIN m_constructed |-> k >= Size /\ m_constructed[k]]
    /\ undefined' = \E i \in 1..Size : Contents[i] = Raw \/ NoFlag(i - 1)
    /\ m_start_index' = 0 /\ m_write_index' = 0
    /\ UNCHANGED <<m_capacity, iterator, returned, destroyed>>

(* reserve(new_capacity): the new storage has one slot more than flags, and the
   write index is put behind the last slot of the old storage. *)
Reserve(new_capacity) ==
    /\ Called("reserve") /\ new_capacity > m_capacity
    /\ m_buffer' = [k \in 0..new_capacity |->
                       IF k < Size THEN Contents[k + 1] ELSE Raw]
    /\ m_constructed' = [k \in 0..(new_capacity - 1) |->
                            k < Size /\ IsConstructed(Adjusted(k))]
    /\ undefined' = \E i \in 1..Size : Contents[i] = Raw \/ NoFlag(Adjusted(i - 1))
    /\ m_start_index' = 0
    /\ m_write_index' = m_capacity - 1
    /\ m_capacity' = new_capacity + 1
    /\ it_slot' = None
    /\ UNCHANGED <<it_index, returned, destroyed>>

(* Move assignment to a buffer just constructed with InitialCapacity, seen from
   that buffer: it takes over the storage and the indices and keeps its own
   flags.  (The move constructor takes over the flags too: nothing changes.) *)
MoveAssign ==
    /\ Called("move_assign")
    /\ m_constructed' = [k \in 0..InitialCapacity |-> FALSE]
    /\ UNCHANGED <<m_buffer, indices, iterator, returned, undefined, destroyed>>

(* ~RingBuffer() *)
Destroy ==
    /\ Called("destroy")
    /\ m_buffer' = [k \in Slots |-> IF IndexOf(k) < Size /\ IsConstructed(k)
                                       THEN Raw ELSE m_buffer[k]]
    /\ undefined' = \E i \in 1..Size : \/ NoFlag(Adjusted(i - 1))
                                       \/ Dead(Adjusted(i - 1))
    /\ destroyed' = TRUE
    /\ UNCHANGED <<m_constructed, indices, iterator, returned>>

----------------------------------------------------------------------------
(* An Iterator or ConstIterator: an index and the slot it points to *)

PointAt(index, k) ==
    /\ it_index' = index /\ it_slot' = k
    /\ UNCHANGED <<m_buffer, m_constructed, indices, returned, undefined, destroyed>>

Begin == Called("iterate") /\ PointAt(0, m_start_index)
End   == Called("iterate") /\ PointAt(Size, m_write_index)

(* Mutant of Increment: the pointer is advanced instead of looked up. *)
Increment_NextSlot ==
    /\ Called("iterate")
    /\ IF it_index + 1 >= Capacity THEN PointAt(Capacity, m_write_index)
                                   ELSE PointAt(it_index + 1, m_start_index + it_index + 1)

(* operator++: bounded by the capacity, not by the size *)
Increment ==
    /\ Called("iterate")
    /\ IF it_index + 1 >= Capacity THEN PointAt(Capacity, m_write_index)
                                   ELSE PointAt(it_index + 1, Adjusted(it_index + 1))

(* operator--: does nothing at index 0 *)
Decrement ==
    /\ Called("iterate") /\ it_index > 0
    /\ PointAt(it_index - 1, Adjusted(it_index - 1))

(* operator+ and operator+= *)
Advance(n) ==
    /\ Called("iterate")
    /\ IF it_index + n > Capacity THEN PointAt(Capacity, m_write_index)
                                  ELSE PointAt(it_index + n, Adjusted(it_index + n))

(* operator- and operator-= *)
Retreat(n) ==
    /\ Called("iterate")
    /\ IF n > it_index THEN PointAt(0, m_start_index)
                       ELSE PointAt(it_index - n, Adjusted(it_index - n))

Iterate ==
    \/ Begin \/ End \/ Increment \/ Decrement
    \/ \E n \in Slots : Advance(n) \/ Retreat(n)

----------------------------------------------------------------------------
(* Nothing is left to do, or nothing is known any more. *)
Over == (destroyed \/ undefined) /\ UNCHANGED vars

Next ==
    \/ \E e \in Elements : \/ PushBack(e)
                           \/ \E pos \in 0..Size : Insert(pos, e) \/ InsertFull(pos, e)
                           \/ \E pos \in 0..Size : Emplace(pos, e)
    \/ PopBack \/ PopFront
    \/ \E pos \in 0..Size : Erase(pos)
    \/ \E first, last \in 0..Size : EraseRange(first, last)
    \/ Clear \/ MoveAssign \/ Destroy
    \/ \E n \in NewCapacities : Reserve(n)
    \/ Iterate
    \/ Over

Spec == Init /\ [][Next]_vars

----------------------------------------------------------------------------
(* Properties *)

(* The indices stay inside the storage, whatever is called. *)
TypeOK ==
    /\ m_capacity \in {InitialCapacity + 1} \cup {n + 1 : n \in NewCapacities}
    /\ m_write_index \in Slots /\ m_start_index \in Slots
    /\ m_buffer \in [Slots -> Elements \cup {Raw}]
    /\ m_constructed \in [DOMAIN m_constructed -> BOOLEAN]
    /\ it_index \in Nat
    /\ it_slot \in Nat \cup {None}
    /\ returned \in Elements \cup {Raw, None}
    /\ undefined \in BOOLEAN /\ destroyed \in BOOLEAN

(* Every flag tells the truth, also about objects that are no longer in the
   buffer's range: no object is ever destroyed twice or constructed over. *)
FlagsTruthful ==
    ~ destroyed => /\ DOMAIN m_constructed = Slots
                   /\ \A k \in Slots : m_constructed[k] <=> m_buffer[k] # Raw

(* No call touches an object that is not there. *)
WellDefined == ~ undefined

(* No object exists twice in the storage: whatever is called, and even where
   flags and slots disagree, a move takes its source along. *)
NoElementTwice ==
    \A j, k \in Slots : j # k /\ m_buffer[j] = m_buffer[k] => m_buffer[j] = Raw

(* An iterator that was moved to an index in begin()..end() points at the slot
   of that index, wherever the ring has turned to in the meantime. *)
Synced == it_index <= Size => it_slot = Adjusted(it_index)

IteratorPointsAtItsIndex ==
    [][iterator' # iterator /\ m_capacity' = m_capacity => Synced']_vars

(* The calls for which the buffer keeps its promises. *)
SoundCalls == {"push_back", "pop_front", "pop_back", "insert", "erase",
               "destroy", "iterate"}

(* With those calls the buffer is a bounded deque: every call does to the
   elements what its comment says. *)
Deque == INSTANCE BoundedDeque WITH
    Capacity <- InitialCapacity,
    Nothing  <- None,
    items    <- IF destroyed THEN <<>> ELSE Contents,
    gone     <- destroyed

ImplementsBoundedDeque == Deque!Spec

(* reserve() loses no element and makes none up. *)
ReserveKeepsElements ==
    [][m_capacity' # m_capacity => Contents' = Contents]_vars
=============================================================================
