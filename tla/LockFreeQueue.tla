---------------------------- MODULE LockFreeQueue ----------------------------
(***************************************************************************)
(* hyperion::LockFreeQueue<T> (include/Hyperion/LockFreeQueue.h): a ring   *)
(* of m_capacity slots shared by producer threads and one consumer thread. *)
(* One action is one access to shared memory: an atomic read-modify-write, *)
(* an atomic load, or the assignment of one slot.  m_read is a plain word  *)
(* that only the consumer touches, so its update travels with the load     *)
(* that guards it.                                                         *)
(*                                                                         *)
(* Elements are identities: the k-th element producer p hands to a push is *)
(* <<p, k>>.  A slot that holds no element (default-constructed, moved     *)
(* from, or memory not written since it was allocated) holds Vacant.       *)
(* accepted and delivered are history variables; the code has neither.     *)
(*                                                                         *)
(* The filling constructors, clear() and reserve() put in place memory     *)
(* that allocate_unique<T[]> leaves unconstructed, and slots are only ever *)
(* assigned to.  That is defined for a trivially copyable T, and for such  *)
(* a T these three are modelled; any other T may use the rest.             *)
(***************************************************************************)
EXTENDS Integers, Sequences, FiniteSets

CONSTANTS
    Producers,         \* threads that push
    InitialCapacity,   \* the constructor's initial_capacity
    CounterModulus,    \* 2^w, the range of the u32 counters
    MaxPushes,         \* bound: pushes each producer calls
    MaxPops,           \* bound: elements the consumer pops
    PushOps,           \* the push operations the producers use
    OwnerOps,          \* operations the owner uses while no other is in progress
    NewCapacities,     \* the arguments reserve() is called with
    DefaultValue,      \* the element a filling constructor stores everywhere
    Vacant,            \* a slot without an element
    None               \* the empty Option

ASSUME QueueAssumption ==
    /\ InitialCapacity \in Nat \ {0}
    /\ CounterModulus \in Nat /\ CounterModulus > InitialCapacity
    /\ MaxPushes \in Nat /\ MaxPops \in Nat
    /\ PushOps \subseteq {"push_back", "try_push_back", "force_push_back"}
    /\ OwnerOps \subseteq {"front", "clear", "reserve", "move"}
    /\ NewCapacities \subseteq 1..(CounterModulus - 1)
    /\ Vacant # None

Element == (Producers \X (1..MaxPushes)) \cup {DefaultValue}

ASSUME ElementAssumption == Vacant \notin Element /\ None \notin Element

VARIABLES
    m_read, m_write, m_max_read, m_size,    \* the four counters
    m_buffer, m_capacity,                   \* the ring
    pc, op, value, slot, outcome, issued,   \* per producer: the push in progress
    cpc, cslot, popped, peeked,             \* the consumer: the pop in progress
    accepted, delivered                     \* history

counters == <<m_read, m_write, m_max_read, m_size>>
producer == <<pc, op, value, slot, outcome, issued>>
consumer == <<cpc, cslot, popped, peeked>>
history  == <<accepted, delivered>>
vars     == <<counters, m_buffer, m_capacity, producer, consumer, history>>

(* The counters and their unsigned arithmetic. *)
Word == 0..(CounterModulus - 1)
Inc(x) == (x + 1) % CounterModulus
Dec(x) == (x + CounterModulus - 1) % CounterModulus

(* Mutant of SlotOf: the remainder taken by the wrong number. *)
SlotOf_OneShort(counter) == counter % (m_capacity - 1)

(* Where the counter of an element puts it in the ring. *)
SlotOf(counter) == counter % m_capacity

(* Mutants of NoPlaceLeft: the comparison off by one, in either direction. *)
NoPlaceLeft_OneOver(size) == size > m_capacity
NoPlaceLeft_OneShort(size) == size + 1 >= m_capacity

(* increment_size() fails for a size that was already this large. *)
NoPlaceLeft(size) == size >= m_capacity

----------------------------------------------------------------------------
(* Construction *)

Idle == 
    /\ pc = [p \in Producers |-> "idle"]
    /\ op = [p \in Producers |-> "none"]
    /\ value = [p \in Producers |-> Vacant]
    /\ slot = [p \in Producers |-> 0]
    /\ outcome = [p \in Producers |-> "none"]
    /\ issued = [p \in Producers |-> 0]
    /\ cpc = "idle" /\ cslot = 0 /\ popped = None /\ peeked = None

(* LockFreeQueue(), LockFreeQueue(initial_capacity) *)
InitEmpty ==
    /\ Idle
    /\ m_capacity = InitialCapacity
    /\ m_buffer = [i \in 0..(InitialCapacity - 1) |-> Vacant]
    /\ m_read = 0 /\ m_write = 0 /\ m_max_read = 0 /\ m_size = 0
    /\ accepted = <<>> /\ delivered = <<>>

(* LockFreeQueue(initial_capacity, default_value) and, for a list of equal
   values, LockFreeQueue(initializer_list): every slot of the new memory is
   assigned an element and set_all(0, capacity, capacity) publishes them all. *)
InitFilled ==
    /\ Idle
    /\ m_capacity = InitialCapacity
    /\ m_buffer = [i \in 0..(InitialCapacity - 1) |-> DefaultValue]
    /\ m_read = 0 /\ m_write = InitialCapacity
    /\ m_max_read = InitialCapacity /\ m_size = InitialCapacity
    /\ accepted = [i \in 1..InitialCapacity |-> DefaultValue]
    /\ delivered = <<>>

Init == InitEmpty \/ InitFilled

----------------------------------------------------------------------------
(* The producers: push_back, try_push_back, force_push_back and their
   emplace forms, which differ only in how the element is made. *)

CallPush(p, o) ==
    /\ pc[p] = "idle" /\ issued[p] < MaxPushes
    /\ issued' = [issued EXCEPT ![p] = @ + 1]
    /\ op' = [op EXCEPT ![p] = o]
    /\ value' = [value EXCEPT ![p] = <<p, issued[p] + 1>>]
    /\ outcome' = [outcome EXCEPT ![p] = "none"]
    /\ pc' = [pc EXCEPT ![p] = "increment_size"]
    /\ UNCHANGED <<slot, counters, m_buffer, m_capacity, consumer, history>>

(* increment_size(), first half: m_size.fetch_add(1) and the test of the
   value it returned.  A try_push_back is refused by this test. *)
IncrementSize(p) ==
    /\ pc[p] = "increment_size"
    /\ m_size' = Inc(m_size)
    /\ IF NoPlaceLeft(m_size)
          THEN /\ pc' = [pc EXCEPT ![p] = "decrement_size"]
               /\ outcome' = IF op[p] = "try_push_back"
                                THEN [outcome EXCEPT ![p] = "full"] ELSE outcome
          ELSE /\ pc' = [pc EXCEPT ![p] = "claim"]
               /\ UNCHANGED outcome
    /\ UNCHANGED <<m_read, m_write, m_max_read, m_buffer, m_capacity,
                   op, value, slot, issued, consumer, history>>

(* Mutant of DecrementSize: the failed increment is not taken back. *)
DecrementSize_NotTakenBack(p) ==
    /\ pc[p] = "decrement_size"
    /\ pc' = [pc EXCEPT ![p] = CASE op[p] = "push_back"       -> "increment_size"
                                 [] op[p] = "try_push_back"   -> "idle"
                                 [] op[p] = "force_push_back" -> "take_back"]
    /\ UNCHANGED <<counters, m_buffer, m_capacity,
                   op, value, slot, outcome, issued, consumer, history>>

(* increment_size(), second half: the increment is taken back; push_back
   spins, try_push_back returns false, force_push_back takes over a slot. *)
DecrementSize(p) ==
    /\ pc[p] = "decrement_size"
    /\ m_size' = Dec(m_size)
    /\ pc' = [pc EXCEPT ![p] = CASE op[p] = "push_back"       -> "increment_size"
                                 [] op[p] = "try_push_back"   -> "idle"
                                 [] op[p] = "force_push_back" -> "take_back"]
    /\ UNCHANGED <<m_read, m_write, m_max_read, m_buffer, m_capacity,
                   op, value, slot, outcome, issued, consumer, history>>

(* Mutant of Claim: the remainder is forgotten. *)
Claim_Unwrapped(p) ==
    /\ pc[p] = "claim"
    /\ m_write' = Inc(m_write)
    /\ slot' = [slot EXCEPT ![p] = m_write]
    /\ pc' = [pc EXCEPT ![p] = "store"]
    /\ accepted' = Append(accepted, value[p])
    /\ UNCHANGED <<m_read, m_max_read, m_size, m_buffer, m_capacity,
                   op, value, outcome, issued, consumer, delivered>>

(* write = m_write.fetch_add(1) % m_capacity *)
Claim(p) ==
    /\ pc[p] = "claim"
    /\ m_write' = Inc(m_write)
    /\ slot' = [slot EXCEPT ![p] = SlotOf(m_write)]
    /\ pc' = [pc EXCEPT ![p] = "store"]
    /\ accepted' = Append(accepted, value[p])
    /\ UNCHANGED <<m_read, m_max_read, m_size, m_buffer, m_capacity,
                   op, value, outcome, issued, consumer, delivered>>

(* force_push_back on a full queue: write = m_max_read.fetch_sub(1) % m_capacity.
   accepted follows the documented contract: the most recent entry is replaced. *)
TakeBack(p) ==
    /\ pc[p] = "take_back"
    /\ m_max_read' = Dec(m_max_read)
    /\ slot' = [slot EXCEPT ![p] = SlotOf(m_max_read)]
    /\ pc' = [pc EXCEPT ![p] = "store"]
    /\ accepted' = [accepted EXCEPT ![Len(accepted)] = value[p]]
    /\ UNCHANGED <<m_read, m_write, m_size, m_buffer, m_capacity,
                   op, value, outcome, issued, consumer, delivered>>

(* m_buffer[write] = value *)
Store(p) ==
    /\ pc[p] = "store"
    /\ m_buffer' = [m_buffer EXCEPT ![slot[p]] = value[p]]
    /\ pc' = [pc EXCEPT ![p] = "publish"]
    /\ UNCHANGED <<counters, m_capacity, op, value, slot, outcome, issued,
                   consumer, history>>

(* m_max_read.fetch_add(1), and the call returns *)
Publish(p) ==
    /\ pc[p] = "publish"
    /\ m_max_read' = Inc(m_max_read)
    /\ outcome' = [outcome EXCEPT ![p] = "pushed"]
    /\ pc' = [pc EXCEPT ![p] = "idle"]
    /\ UNCHANGED <<m_read, m_write, m_size, m_buffer, m_capacity,
                   op, value, slot, issued, consumer, history>>

ProducerStep(p) ==
    \/ IncrementSize(p) \/ DecrementSize(p)
    \/ Claim(p) \/ TakeBack(p) \/ Store(p) \/ Publish(p)

----------------------------------------------------------------------------
(* The consumer *)

(* Mutants of NothingToRead: off by one, in either direction. *)
NothingToRead_Late == m_read > m_max_read
NothingToRead_Early == Inc(m_read) >= m_max_read

(* The test both pop_front() and front() start with, in unsigned arithmetic. *)
NothingToRead == Inc(m_read) > m_max_read

(* pop_front(): the test, then read = m_read % m_capacity; ++m_read *)
PopFront ==
    /\ cpc = "idle" /\ Len(delivered) < MaxPops
    /\ peeked' = None
    /\ IF NothingToRead
          THEN /\ popped' = None
               /\ UNCHANGED <<cpc, cslot, m_read>>
          ELSE /\ cslot' = SlotOf(m_read)
               /\ m_read' = Inc(m_read)
               /\ cpc' = "move"
               /\ UNCHANGED popped
    /\ UNCHANGED <<m_write, m_max_read, m_size, m_buffer, m_capacity,
                   producer, history>>

(* ret = Some(std::move(m_buffer[read])).  What a move leaves in the slot
   depends on T: the element itself, if T is trivially copyable, or a
   moved-from object. *)
MoveOut ==
    /\ cpc = "move"
    /\ popped' = m_buffer[cslot]
    /\ \E rest \in {m_buffer[cslot], Vacant} :
          m_buffer' = [m_buffer EXCEPT ![cslot] = rest]
    /\ cpc' = "release"
    /\ UNCHANGED <<counters, m_capacity, producer, cslot, peeked, history>>

(* Mutant of ReleaseSlot: the place is not given back. *)
ReleaseSlot_NotCounted ==
    /\ cpc = "release"
    /\ cpc' = "idle"
    /\ delivered' = Append(delivered, popped)
    /\ UNCHANGED <<counters, m_buffer, m_capacity,
                   producer, cslot, popped, peeked, accepted>>

(* m_size.fetch_sub(1), and the call returns *)
ReleaseSlot ==
    /\ cpc = "release"
    /\ m_size' = Dec(m_size)
    /\ cpc' = "idle"
    /\ delivered' = Append(delivered, popped)
    /\ UNCHANGED <<m_read, m_write, m_max_read, m_buffer, m_capacity,
                   producer, cslot, popped, peeked, accepted>>

ConsumerStep == PopFront \/ MoveOut \/ ReleaseSlot

(* front() indexes the buffer with m_read itself; past its end the read is
   undefined and may yield anything. *)
Front ==
    /\ "front" \in OwnerOps /\ cpc = "idle"
    /\ IF NothingToRead
          THEN peeked' = None
          ELSE IF m_read < m_capacity
                  THEN peeked' = m_buffer[m_read]
                  ELSE \E any \in Element \cup {Vacant} : peeked' = any
    /\ UNCHANGED <<counters, m_buffer, m_capacity, producer,
                   cpc, cslot, popped, history>>

----------------------------------------------------------------------------
(* Operations of the owner.  They use no atomic protocol, so the owner calls
   them only while no push and no pop is in progress. *)

Quiescent == cpc = "idle" /\ \A p \in Producers : pc[p] = "idle"

(* set_all(read, write, size): m_max_read is set from size *)
SetAll(read, write, size) ==
    /\ m_read' = read /\ m_write' = write
    /\ m_size' = size /\ m_max_read' = size

(* clear(): new memory, none of it written yet *)
Clear ==
    /\ "clear" \in OwnerOps /\ Quiescent
    /\ m_buffer' = [i \in 0..(m_capacity - 1) |-> Vacant]
    /\ SetAll(0, 0, 0)
    /\ accepted' = <<>> /\ delivered' = <<>>
    /\ UNCHANGED <<m_capacity, producer, consumer>>

(* Mutant of Reserve: the slots are copied in memory order. *)
Reserve_NotRotated(new_capacity) ==
    /\ "reserve" \in OwnerOps /\ Quiescent
    /\ new_capacity > m_capacity
    /\ m_buffer' = [i \in 0..(new_capacity - 1) |->
                       IF i < m_capacity THEN m_buffer[i] ELSE Vacant]
    /\ m_read' = 0
    /\ m_capacity' = new_capacity
    /\ m_write' = m_capacity - 1
    /\ m_max_read' = m_capacity - 1
    /\ UNCHANGED <<m_size, producer, consumer, history>>

(* reserve(new_capacity): all m_capacity slots are copied in ring order from
   m_read into new memory, the rest of which is not written; the counters are
   set from the old capacity and m_size keeps its value. *)
Reserve(new_capacity) ==
    /\ "reserve" \in OwnerOps /\ Quiescent
    /\ new_capacity > m_capacity
    /\ m_buffer' = [i \in 0..(new_capacity - 1) |->
                       IF i < m_capacity THEN m_buffer[SlotOf(m_read + i)]
                                         ELSE Vacant]
    /\ m_read' = 0
    /\ m_capacity' = new_capacity
    /\ m_write' = m_capacity - 1
    /\ m_max_read' = m_capacity - 1
    /\ UNCHANGED <<m_size, producer, consumer, history>>

(* The move constructor and move assignment, seen from the object that takes
   over the buffer: get_all() of the source, then set_all(). *)
MoveConstruct ==
    /\ "move" \in OwnerOps /\ Quiescent
    /\ SetAll(m_read, m_write, m_size)
    /\ UNCHANGED <<m_buffer, m_capacity, producer, consumer, history>>

----------------------------------------------------------------------------
Next ==
    \/ \E p \in Producers : (\E o \in PushOps : CallPush(p, o)) \/ ProducerStep(p)
    \/ ConsumerStep
    \/ Front
    \/ Clear
    \/ \E n \in NewCapacities : Reserve(n)
    \/ MoveConstruct

Spec == Init /\ [][Next]_vars

(* A thread that is inside an operation keeps running, and the consumer
   thread calls pop_front() again and again. *)
Fairness == WF_vars(ConsumerStep) /\ \A p \in Producers : WF_vars(ProducerStep(p))

FairSpec == Spec /\ Fairness

(* size(), empty(), full() as any thread may evaluate them at any moment *)
Size  == m_size
Empty == Size = 0
Full  == Size = m_capacity

----------------------------------------------------------------------------
(* Properties *)

(* Every counter is a word of the machine, every slot holds an element or
   nothing, and every thread is at one of the code's points. *)
TypeOK ==
    /\ m_read \in Word /\ m_write \in Word /\ m_max_read \in Word /\ m_size \in Word
    /\ m_capacity \in {InitialCapacity} \cup NewCapacities
    /\ m_buffer \in [0..(m_capacity - 1) -> Element \cup {Vacant}]
    /\ pc \in [Producers -> {"idle", "increment_size", "decrement_size",
                              "claim", "take_back", "store", "publish"}]
    /\ op \in [Producers -> PushOps \cup {"none"}]
    /\ value \in [Producers -> Element \cup {Vacant}]
    /\ slot \in [Producers -> 0..(m_capacity - 1)]
    /\ outcome \in [Producers -> {"none", "pushed", "full"}]
    /\ issued \in [Producers -> 0..MaxPushes]
    /\ cpc \in {"idle", "move", "release"}
    /\ cslot \in 0..(m_capacity - 1)
    /\ popped \in Element \cup {Vacant, None}
    /\ peeked \in Element \cup {Vacant, None}
    /\ accepted \in Seq(Element)
    /\ delivered \in Seq(Element \cup {Vacant})

(* Places taken: elements claimed and not yet released by the consumer, and
   places a producer has reserved and not yet claimed. *)
Occupied == (m_write - m_read) + (IF cpc = "idle" THEN 0 ELSE 1)
               + Cardinality({p \in Producers : pc[p] = "claim"})

(* No slot is written by one thread while another reads or writes it: a
   producer about to store and the consumer about to move, or two producers
   about to store, are never at the same slot. *)
NoSlotRace ==
    \A p \in Producers : pc[p] = "store" =>
        /\ ~ (cpc = "move" /\ cslot = slot[p])
        /\ \A q \in Producers \ {p} : ~ (pc[q] = "store" /\ slot[q] = slot[p])

(* pop_front() hands out exactly the accepted elements: none invented, none
   lost, none twice, in the order their places were claimed. *)
DeliveredInOrder ==
    /\ Len(delivered) <= Len(accepted)
    /\ \A i \in 1..Len(delivered) : delivered[i] = accepted[i]

(* Whenever no operation is in progress the four counters agree, whatever the
   interleaving of the operations before. *)
QuiescentCounts ==
    Quiescent => /\ m_max_read = m_write
                 /\ m_size = m_write - m_read
                 /\ m_size <= m_capacity

(* The places taken never exceed the capacity: no slot is claimed again
   before the consumer has released it. *)
NeverOverclaimed == Occupied <= m_capacity

(* A size test that fails does so because every place is taken. *)
RefusedOnlyWhenFull ==
    [][\A p \in Producers :
          pc[p] = "increment_size" /\ pc'[p] = "decrement_size"
             => Occupied = m_capacity]_vars

(* empty() is never true while a published element waits to be popped. *)
EmptyMeansNothingToRead == Empty => NothingToRead

(* What can be popped, in order. *)
Pending == [i \in 1..(m_max_read - m_read) |-> m_buffer[SlotOf(m_read + i - 1)]]

(* What reserve() carries over, it carries over in order: of the elements that
   wait, the oldest m_capacity - 1 can be popped afterwards as before. *)
ReserveKeepsOldest ==
    [][m_capacity' # m_capacity =>
          \A i \in 1..(m_max_read - m_read) :
             i < m_capacity => i <= m_max_read' /\ Pending'[i] = Pending[i]]_vars

(* "no **elements** will be lost or invalidated" by reserve() (:178): all that
   could be popped before can be popped afterwards. *)
ReserveLosesNothing ==
    [][m_capacity' # m_capacity =>
          \A i \in 1..(m_max_read - m_read) :
             i <= m_max_read' /\ Pending'[i] = Pending[i]]_vars

(* A push_back that waits for a place returns. *)
PushBackReturns ==
    \A p \in Producers : pc[p] # "idle" ~> pc[p] = "idle"

(* Every accepted element is delivered, unless clear() drops it. *)
AcceptedIsDelivered ==
    \A n \in 1..(InitialCapacity + MaxPushes) :
        Len(accepted) >= n ~> Len(delivered) >= n \/ Len(accepted) < n

----------------------------------------------------------------------------
(* What makes the queue correct when a single thread pushes: the strengthening
   of the safety properties above that every step preserves. *)

(* The regime in which the queue keeps its promises: one producer, no
   overwriting, no relocation, and fewer pushes than wrap a counter. *)
SingleProducer ==
    /\ \E p \in Producers : Producers = {p}
    /\ "force_push_back" \notin PushOps
    /\ OwnerOps \subseteq {"front", "clear"}
    /\ InitialCapacity + MaxPushes + 1 < CounterModulus

(* 1 while the consumer holds a slot it has not yet released *)
Held == IF cpc = "idle" THEN 0 ELSE 1

(* How the counters depend on where the producer is. *)
CountersAgree ==
    /\ m_capacity = InitialCapacity
    /\ Held <= m_read /\ m_read <= m_max_read
    /\ \A p \in Producers :
         /\ pc[p] # "take_back"
         /\ m_write = m_max_read + (IF pc[p] \in {"store", "publish"} THEN 1 ELSE 0)
         /\ m_size = m_write - m_read + Held
                      + (IF pc[p] \in {"claim", "decrement_size"} THEN 1 ELSE 0)
         /\ m_write - m_read + Held + (IF pc[p] = "claim" THEN 1 ELSE 0) <= m_capacity
         /\ m_write + (IF pc[p] \in {"increment_size", "decrement_size", "claim"}
                          THEN 1 ELSE 0) <= InitialCapacity + issued[p]

(* Which slots the threads are at: the producer at the last claimed one, the
   consumer at the last one read. *)
SlotsAgree ==
    /\ \A p \in Producers :
         pc[p] \in {"store", "publish"} => slot[p] = SlotOf(m_write - 1)
    /\ cpc = "move" => cslot = SlotOf(m_read - 1)

(* Where every accepted element is: delivered, in the consumer's hands, in the
   slot of its number, or still with the producer. *)
ContentsAgree ==
    /\ Len(accepted) = m_write
    /\ Len(delivered) = m_read - Held
    /\ \A i \in 1..Len(delivered) : delivered[i] = accepted[i]
    /\ \A i \in 1..m_max_read : i > m_read => m_buffer[SlotOf(i - 1)] = accepted[i]
    /\ cpc = "move" => m_buffer[cslot] = accepted[m_read]
    /\ cpc = "release" => popped = accepted[m_read]
    /\ \A p \in Producers :
         /\ pc[p] = "store" => value[p] = accepted[m_write]
         /\ pc[p] = "publish" => m_buffer[slot[p]] = accepted[m_write]

SpscInv == CountersAgree /\ SlotsAgree /\ ContentsAgree

----------------------------------------------------------------------------
(* With one producer the queue is a bounded FIFO queue: a push takes effect
   when it publishes, a pop when it advances m_read. *)
Fifo == INSTANCE BoundedFifo WITH
    Capacity <- InitialCapacity,
    Nothing  <- None,
    items    <- Pending,
    hand     <- IF cpc = "idle" THEN None
                ELSE IF cpc = "move" THEN m_buffer[cslot] ELSE popped,
    request  <- [p \in Producers |->
                    IF pc[p] = "idle" \/ outcome[p] = "full" THEN None ELSE value[p]],
    outcome  <- outcome

ImplementsBoundedFifo == Fifo!Spec
=============================================================================
