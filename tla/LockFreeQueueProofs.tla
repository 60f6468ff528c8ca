------------------------ MODULE LockFreeQueueProofs ------------------------
(***************************************************************************)
(* What TLAPS proves of LockFreeQueue, for every capacity, counter width   *)
(* and number of pushes.  Whatever operations are used: type correctness,  *)
(* and what reserve() carries over.  For any number of threads that only   *)
(* add: how many elements are counted and claimed.  For a single one: the  *)
(* safety properties of a FIFO queue and that it implements one.           *)
(***************************************************************************)
EXTENDS LockFreeQueue, SequenceTheorems, FiniteSetTheorems, TLAPS

----------------------------------------------------------------------------
(* Arithmetic of the ring *)

(* A remainder is smaller than its divisor. *)
LEMMA RemainderInRange ==
    ASSUME NEW x \in Nat, NEW c \in Nat \ {0}
    PROVE  x % c \in 0..(c - 1)
  BY SMT

(* A number below the modulus is its own remainder. *)
LEMMA RemainderOfSmall ==
    ASSUME NEW x \in Nat, NEW m \in Nat, x < m
    PROVE  x % m = x
  BY SMT

(* Decrementing a positive counter does not wrap. *)
LEMMA RemainderOfPredecessor ==
    ASSUME NEW x \in Nat, NEW m \in Nat, 0 < x, x < m
    PROVE  (x + m - 1) % m = x - 1
  BY SMT

(* No multiple of c lies strictly between 0 and c. *)
LEMMA NoMultipleBetween ==
    ASSUME NEW q \in Int, NEW c \in Nat \ {0}, 0 < c * q, c * q < c
    PROVE  FALSE
  <1>1. CASE q <= 0
    <2>1. c * q <= 0
      BY <1>1, SMT
    <2> QED
      BY <2>1
  <1>2. CASE q >= 1
    <2>1. c * q >= c
      BY <1>2, SMT
    <2> QED
      BY <2>1
  <1> QED
    BY <1>1, <1>2

(* Counters less than a capacity apart belong to different slots. *)
LEMMA RemaindersDiffer ==
    ASSUME NEW a \in Nat, NEW b \in Nat, NEW c \in Nat \ {0}, a < b, b < a + c
    PROVE  a % c # b % c
  <1>1. SUFFICES ASSUME a % c = b % c PROVE FALSE
    OBVIOUS
  <1>2. a = c * (a \div c) + (a % c) /\ a \div c \in Int /\ a % c \in Int
    BY SMT
  <1>3. b = c * (b \div c) + (b % c) /\ b \div c \in Int
    BY SMT
  <1> DEFINE q == (b \div c) - (a \div c)
  <1>4. q \in Int /\ c * q = c * (b \div c) - c * (a \div c)
    BY <1>2, <1>3
  <1>5. c * q = b - a
    BY <1>1, <1>2, <1>3, <1>4
  <1> HIDE DEF q
  <1> QED
    BY <1>4, <1>5, NoMultipleBetween

(* The counters' operations stay within a word. *)
LEMMA WordOperations ==
    ASSUME NEW x \in Word
    PROVE  Inc(x) \in Word /\ Dec(x) \in Word
  <1>1. CounterModulus \in Nat \ {0} /\ x + 1 \in Nat /\ x + CounterModulus - 1 \in Nat
    BY QueueAssumption DEF Word
  <1> QED
    BY <1>1, RemainderInRange DEF Word, Inc, Dec

----------------------------------------------------------------------------
(* Type correctness, for any number of producers and any operations *)

(* An operation in progress has its operands. *)
InProgress ==
    /\ \A p \in Producers : pc[p] # "idle" => value[p] \in Element /\ op[p] \in PushOps
    /\ cpc = "release" => popped \in Element \cup {Vacant}

TypeInv == TypeOK /\ InProgress

LEMMA CapacityFacts ==
    ASSUME TypeOK
    PROVE  /\ m_capacity \in Nat \ {0} /\ m_capacity < CounterModulus
           /\ \A x \in Nat : SlotOf(x) \in 0..(m_capacity - 1)
  <1>1. m_capacity \in Nat \ {0} /\ m_capacity < CounterModulus
    BY QueueAssumption DEF TypeOK
  <1> QED
    BY <1>1, RemainderInRange DEF SlotOf

LEMMA TypeInit == Init => TypeInv
  <1> USE QueueAssumption DEF TypeInv, TypeOK, InProgress, Word, Idle
  <1>1. DefaultValue \in Element
    BY DEF Element
  <1>2. InitEmpty => TypeInv
    BY DEF InitEmpty
  <1>3. InitFilled => TypeInv
    BY <1>1 DEF InitFilled
  <1> QED
    BY <1>2, <1>3 DEF Init

LEMMA TypeStep == TypeInv /\ [Next]_vars => TypeInv'
  <1> SUFFICES ASSUME TypeInv, [Next]_vars PROVE TypeInv'
    OBVIOUS
  <1> USE DEF counters, producer, consumer, history
  <1>0. TypeOK /\ InProgress
    BY DEF TypeInv
  <1>w. \A x \in Word : Inc(x) \in Word /\ Dec(x) \in Word
    BY WordOperations
  <1>n. Word \subseteq Nat
    BY QueueAssumption DEF Word
  <1>c. m_capacity \in Nat \ {0} /\ m_capacity < CounterModulus
        /\ \A x \in Nat : SlotOf(x) \in 0..(m_capacity - 1)
    BY <1>0, CapacityFacts
  <1>1. ASSUME NEW p \in Producers, NEW o \in PushOps, CallPush(p, o) PROVE TypeInv'
    <2>1. <<p, issued[p] + 1>> \in Element /\ issued[p] + 1 \in 0..MaxPushes
      BY SMTT(30), <1>0, <1>1, QueueAssumption DEF TypeOK, CallPush, Element
    <2> QED
      BY <1>0, <1>1, <2>1 DEF TypeInv, TypeOK, InProgress, CallPush
  <1>2. ASSUME NEW p \in Producers, IncrementSize(p) PROVE TypeInv'
    BY <1>0, <1>2, <1>w DEF TypeInv, TypeOK, InProgress, IncrementSize
  <1>3. ASSUME NEW p \in Producers, DecrementSize(p) PROVE TypeInv'
    <2>1. op[p] \in {"push_back", "try_push_back", "force_push_back"}
      BY <1>0, <1>3, QueueAssumption DEF InProgress, DecrementSize
    <2> QED
      BY <1>0, <1>3, <1>w, <2>1 DEF TypeInv, TypeOK, InProgress, DecrementSize
  <1>4. ASSUME NEW p \in Producers, Claim(p) PROVE TypeInv'
    <2>1. SlotOf(m_write) \in 0..(m_capacity - 1) /\ Inc(m_write) \in Word
      BY <1>0, <1>w, <1>n, <1>c DEF TypeOK
    <2>2. Append(accepted, value[p]) \in Seq(Element)
      BY <1>0, <1>4 DEF TypeOK, InProgress, Claim
    <2> QED
      BY <1>0, <1>4, <2>1, <2>2 DEF TypeInv, TypeOK, InProgress, Claim
  <1>5. ASSUME NEW p \in Producers, TakeBack(p) PROVE TypeInv'
    <2>1. value[p] \in Element
      BY <1>0, <1>5 DEF InProgress, TakeBack
    <2>2. [accepted EXCEPT ![Len(accepted)] = value[p]] \in Seq(Element)
      <3>1. accepted \in Seq(Element)
        BY <1>0 DEF TypeOK
      <3>2. CASE Len(accepted) \in 1..Len(accepted)
        BY <2>1, <3>1, <3>2, ExceptSeq
      <3>3. CASE Len(accepted) = 0
        <4>1. accepted = <<>> /\ [accepted EXCEPT ![Len(accepted)] = value[p]] = accepted
          BY <3>1, <3>3
        <4> QED
          BY <3>1, <4>1
      <3> QED
        BY <3>1, <3>2, <3>3
    <2> QED
      BY <1>0, <1>5, <1>w, <1>n, <1>c, <2>2 DEF TypeInv, TypeOK, InProgress, TakeBack
  <1>6. ASSUME NEW p \in Producers, Store(p) PROVE TypeInv'
    BY <1>0, <1>6 DEF TypeInv, TypeOK, InProgress, Store
  <1>7. ASSUME NEW p \in Producers, Publish(p) PROVE TypeInv'
    BY <1>0, <1>7, <1>w DEF TypeInv, TypeOK, InProgress, Publish
  <1>8. CASE PopFront
    BY <1>0, <1>8, <1>w, <1>n, <1>c DEF TypeInv, TypeOK, InProgress, PopFront
  <1>9. CASE MoveOut
    BY <1>0, <1>9 DEF TypeInv, TypeOK, InProgress, MoveOut
  <1>10. CASE ReleaseSlot
    BY <1>0, <1>10, <1>w DEF TypeInv, TypeOK, InProgress, ReleaseSlot
  <1>11. CASE Front
    <2>1. m_read \in Nat /\ (m_read < m_capacity => m_read \in 0..(m_capacity - 1))
      BY <1>0, <1>n, <1>c DEF TypeOK
    <2>2. peeked' \in Element \cup {Vacant, None}
      <3>1. CASE NothingToRead
        BY <1>11, <3>1, Zenon DEF Front
      <3>2. CASE ~ NothingToRead /\ m_read < m_capacity
        <4>1. peeked' = m_buffer[m_read]
          BY <1>11, <3>2, Zenon DEF Front
        <4>2. m_buffer[m_read] \in Element \cup {Vacant}
          BY <1>0, <2>1, <3>2 DEF TypeOK
        <4> QED
          BY <4>1, <4>2
      <3>3. CASE ~ NothingToRead /\ ~ (m_read < m_capacity)
        <4>1. PICK any \in Element \cup {Vacant} : peeked' = any
          BY <1>11, <3>3, Zenon DEF Front
        <4> QED
          BY <4>1
      <3> QED
        BY <3>1, <3>2, <3>3
    <2> QED
      BY <1>0, <1>11, <2>2 DEF TypeInv, TypeOK, InProgress, Front
  <1>12. CASE Clear
    BY <1>0, <1>12, QueueAssumption DEF TypeInv, TypeOK, InProgress, Clear, SetAll, Word
  <1>13. ASSUME NEW n \in NewCapacities, Reserve(n) PROVE TypeInv'
    <2>1. n \in Nat /\ n > m_capacity /\ n < CounterModulus
      BY <1>13, QueueAssumption DEF Reserve
    <2>2. m_buffer' \in [0..(m_capacity' - 1) -> Element \cup {Vacant}]
      <3>1. \A i \in 0..(n - 1) : m_buffer[SlotOf(m_read + i)] \in Element \cup {Vacant}
        <4>1. ASSUME NEW i \in 0..(n - 1) PROVE m_read + i \in Nat
          BY <1>0, <1>n, <2>1 DEF TypeOK
        <4> QED
          BY <1>0, <1>c, <4>1 DEF TypeOK
      <3> QED
        BY <1>13, <3>1 DEF Reserve
    <2>3. m_capacity - 1 \in Word /\ 0 \in Word
      BY <1>c, QueueAssumption DEF Word
    <2>4. 0..(m_capacity - 1) \subseteq 0..(m_capacity' - 1)
      BY <1>13, <1>c, <2>1 DEF Reserve
    <2>5. InProgress'
      BY <1>0, <1>13 DEF InProgress, Reserve
    <2>6. /\ slot' \in [Producers -> 0..(m_capacity' - 1)]
          /\ cslot' \in 0..(m_capacity' - 1)
      BY <1>0, <1>13, <2>4 DEF TypeOK, Reserve
    <2>7. m_capacity' \in {InitialCapacity} \cup NewCapacities
      BY <1>13 DEF Reserve
    <2> QED
      BY <1>0, <1>13, <2>2, <2>3, <2>5, <2>6, <2>7 DEF TypeInv, TypeOK, Reserve
  <1>14. CASE MoveConstruct
    BY <1>0, <1>14 DEF TypeInv, TypeOK, InProgress, MoveConstruct, SetAll
  <1>15. CASE UNCHANGED vars
    BY <1>0, <1>15 DEF TypeInv, TypeOK, InProgress, vars
  <1> QED
    BY <1>1, <1>2, <1>3, <1>4, <1>5, <1>6, <1>7, <1>8, <1>9, <1>10, <1>11, <1>12,
       <1>13, <1>14, <1>15 DEF Next, ProducerStep, ConsumerStep

(* The queue never leaves its types, with any number of producers and whatever
   operations they and the owner use: in particular no push or pop ever indexes
   m_buffer outside 0 .. m_capacity - 1, also across reserve(). *)
THEOREM TypeCorrect == Spec => []TypeOK
  <1>1. TypeInv => TypeOK
    BY DEF TypeInv
  <1> QED
    BY TypeInit, TypeStep, <1>1, PTL DEF Spec

----------------------------------------------------------------------------
(* One producer *)

LEMMA SpscInit == SingleProducer /\ Init => SpscInv
  <1> USE QueueAssumption DEF SpscInv, CountersAgree, SlotsAgree, ContentsAgree, Held, Idle
  <1>1. SingleProducer /\ InitEmpty => SpscInv
    BY DEF SingleProducer, InitEmpty
  <1>2. SingleProducer /\ InitFilled => SpscInv
    <2> SUFFICES ASSUME SingleProducer, InitFilled PROVE SpscInv
      OBVIOUS
    <2>1. \A i \in 1..InitialCapacity : SlotOf(i - 1) \in 0..(InitialCapacity - 1)
      <3> TAKE i \in 1..InitialCapacity
      <3>1. i - 1 \in Nat /\ m_capacity = InitialCapacity
        BY DEF InitFilled
      <3> QED
        BY <3>1, RemainderInRange DEF SlotOf
    <2>2. accepted \in Seq({DefaultValue}) /\ Len(accepted) = InitialCapacity
      BY DEF InitFilled
    <2> QED
      BY <2>1, <2>2 DEF InitFilled
  <1> QED
    BY <1>1, <1>2 DEF Init

(* What a step may rely on: the single producer P, counters that do not wrap
   and slots that differ while their counters are less than a capacity apart. *)
LEMMA SpscFacts ==
    ASSUME SingleProducer, TypeInv, SpscInv, NEW P \in Producers
    PROVE  /\ Producers = {P}
           /\ m_write + 1 < CounterModulus
           /\ m_size <= InitialCapacity + 1 /\ InitialCapacity + 1 < CounterModulus
           /\ \A x \in Nat : x + 1 < CounterModulus => Inc(x) = x + 1
           /\ \A x \in Nat : 0 < x /\ x < CounterModulus => Dec(x) = x - 1
           /\ \A a, b \in Nat : a < b /\ b < a + InitialCapacity
                   => a % InitialCapacity # b % InitialCapacity
           /\ InitialCapacity \in Nat \ {0} /\ CounterModulus \in Nat
           /\ m_read \in Nat /\ m_write \in Nat /\ m_max_read \in Nat /\ m_size \in Nat
           /\ m_size < CounterModulus
  <1>1. Producers = {P}
    BY DEF SingleProducer
  <1>2. /\ InitialCapacity \in Nat \ {0} /\ CounterModulus \in Nat /\ MaxPushes \in Nat
        /\ InitialCapacity + MaxPushes + 1 < CounterModulus
    BY QueueAssumption DEF SingleProducer
  <1>3. /\ m_read \in Nat /\ m_write \in Nat /\ m_max_read \in Nat /\ m_size \in Nat
        /\ m_size < CounterModulus /\ issued[P] \in 0..MaxPushes
    BY <1>2 DEF TypeInv, TypeOK, Word
  <1>4. m_write + 1 < CounterModulus
    BY <1>2, <1>3 DEF SpscInv, CountersAgree
  <1>5. m_size <= InitialCapacity + 1 /\ InitialCapacity + 1 < CounterModulus
    BY <1>2, <1>3 DEF SpscInv, CountersAgree, Held
  <1>6. \A x \in Nat : x + 1 < CounterModulus => Inc(x) = x + 1
    BY <1>2, RemainderOfSmall DEF Inc
  <1>7. \A x \in Nat : 0 < x /\ x < CounterModulus => Dec(x) = x - 1
    BY <1>2, RemainderOfPredecessor DEF Dec
  <1>8. \A a, b \in Nat : a < b /\ b < a + InitialCapacity
                   => a % InitialCapacity # b % InitialCapacity
    BY <1>2, RemaindersDiffer
  <1> QED
    BY <1>1, <1>2, <1>3, <1>4, <1>5, <1>6, <1>7, <1>8

LEMMA SpscStep == SingleProducer /\ TypeInv /\ SpscInv /\ [Next]_vars => SpscInv'
  <1> SUFFICES ASSUME SingleProducer, TypeInv, SpscInv, [Next]_vars PROVE SpscInv'
    OBVIOUS
  <1> USE DEF counters, producer, consumer, history
  <1>0. CountersAgree /\ SlotsAgree /\ ContentsAgree /\ TypeOK /\ InProgress
    BY DEF SpscInv, TypeInv
  <1>t. TypeOK'
    BY TypeStep DEF TypeInv
  <1>p. PICK P \in Producers : Producers = {P}
    BY DEF SingleProducer
  <1>f. /\ Producers = {P}
        /\ m_write + 1 < CounterModulus
        /\ m_size <= InitialCapacity + 1 /\ InitialCapacity + 1 < CounterModulus
        /\ InitialCapacity \in Nat \ {0} /\ CounterModulus \in Nat
        /\ m_read \in Nat /\ m_write \in Nat /\ m_max_read \in Nat /\ m_size \in Nat
        /\ m_size < CounterModulus
    BY SpscFacts
  <1>g. /\ \A x \in Nat : x + 1 < CounterModulus => Inc(x) = x + 1
        /\ \A x \in Nat : 0 < x /\ x < CounterModulus => Dec(x) = x - 1
    BY SpscFacts
  <1>s. \A a, b \in Nat : a < b /\ b < a + InitialCapacity
                   => a % InitialCapacity # b % InitialCapacity
    BY SpscFacts
  <1>i. issued[P] \in Nat
    BY <1>0, QueueAssumption DEF TypeOK
  <1>v. /\ m_capacity = InitialCapacity /\ Held <= m_read /\ m_read <= m_max_read
        /\ m_write = m_max_read + (IF pc[P] \in {"store", "publish"} THEN 1 ELSE 0)
        /\ m_size = m_write - m_read + Held
                      + (IF pc[P] \in {"claim", "decrement_size"} THEN 1 ELSE 0)
        /\ m_write - m_read + Held + (IF pc[P] = "claim" THEN 1 ELSE 0) <= InitialCapacity
        /\ m_write + (IF pc[P] \in {"increment_size", "decrement_size", "claim"}
                         THEN 1 ELSE 0) <= InitialCapacity + issued[P]
        /\ Held \in {0, 1} /\ pc[P] # "take_back"
    BY <1>0, <1>p DEF CountersAgree, Held
  <1>1. ASSUME NEW o \in PushOps, CallPush(P, o) PROVE SpscInv'
    <2>1. CountersAgree'
      BY <1>0, <1>1, <1>f, <1>i DEF CountersAgree, Held, CallPush, TypeOK
    <2>2. SlotsAgree' /\ ContentsAgree'
      BY <1>0, <1>1, <1>f DEF SlotsAgree, ContentsAgree, SlotOf, Held, CallPush, TypeOK
    <2> QED
      BY <2>1, <2>2 DEF SpscInv
  <1>2. ASSUME IncrementSize(P) PROVE SpscInv'
    <2>0. m_size = m_write - m_read + Held /\ m_size <= InitialCapacity /\ m_size' = m_size + 1
      BY <1>2, <1>f, <1>g, <1>v DEF IncrementSize
    <2>a. pc'[P] = IF m_size >= InitialCapacity THEN "decrement_size" ELSE "claim"
      BY <1>0, <1>2, <1>v DEF IncrementSize, NoPlaceLeft, TypeOK
    <2>1. CountersAgree'
      BY <1>2, <1>f, <1>i, <1>v, <2>0, <2>a DEF CountersAgree, Held, IncrementSize
    <2>2. SlotsAgree' /\ ContentsAgree'
      BY <1>0, <1>2, <1>f DEF SlotsAgree, ContentsAgree, SlotOf, Held, IncrementSize, TypeOK
    <2> QED
      BY <2>1, <2>2 DEF SpscInv
  <1>3. ASSUME DecrementSize(P) PROVE SpscInv'
    <2>1. op[P] \in {"push_back", "try_push_back"}
      BY <1>0, <1>3, <1>f, QueueAssumption DEF InProgress, DecrementSize, SingleProducer
    <2>0. m_size = m_write - m_read + Held + 1 /\ m_size' = m_size - 1
      BY <1>3, <1>f, <1>g, <1>v DEF DecrementSize
    <2>a. pc'[P] \in {"increment_size", "idle"}
      BY <1>0, <1>3, <2>1 DEF DecrementSize, TypeOK
    <2>2. CountersAgree'
      <3>1. pc[P] = "decrement_size"
            /\ UNCHANGED <<m_capacity, m_read, m_write, m_max_read, issued, cpc>>
        BY <1>3 DEF DecrementSize
      <3> QED
        BY <1>f, <1>i, <1>v, <2>0, <2>a, <3>1 DEF CountersAgree, Held
    <2>3. SlotsAgree' /\ ContentsAgree'
      BY <1>0, <1>3, <1>f, <2>1 DEF SlotsAgree, ContentsAgree, SlotOf, Held, DecrementSize, TypeOK
    <2> QED
      BY <2>2, <2>3 DEF SpscInv
  <1>4. ASSUME Claim(P) PROVE SpscInv'
    <2>2. m_write' = m_write + 1 /\ m_capacity' = m_capacity
      BY <1>4, <1>f, <1>g DEF Claim
    <2>a. pc[P] = "claim" /\ pc'[P] = "store"
      BY <1>0, <1>4 DEF Claim, TypeOK
    <2>1. CountersAgree'
      BY <1>4, <1>f, <1>i, <1>v, <2>2, <2>a DEF CountersAgree, Held, Claim
    <2>3. SlotsAgree'
      BY <1>0, <1>4, <1>f, <2>2 DEF SlotsAgree, SlotOf, Claim, TypeOK
    <2>4. /\ Len(accepted') = m_write + 1
          /\ accepted'[m_write + 1] = value[P]
          /\ \A i \in 1..m_write : accepted'[i] = accepted[i]
      <3>1. accepted \in Seq(Element) /\ value[P] \in Element /\ Len(accepted) = m_write
            /\ accepted' = Append(accepted, value[P])
        BY <1>0, <1>4 DEF ContentsAgree, Claim, TypeOK, InProgress
      <3> QED
        BY <3>1, AppendProperties
    <2>5. ContentsAgree'
      <3>1. m_max_read = m_write /\ m_max_read' = m_max_read /\ m_read' = m_read
        BY <1>4, <1>f, <1>v DEF Claim
      <3>2. Len(delivered) <= m_write
        BY SMTT(30), <1>0, <1>f, <1>v DEF ContentsAgree
      <3>3. m_read > 0 => m_read \in 1..m_write
        BY <1>f, <1>v
      <3> QED
        BY <1>0, <1>4, <1>f, <1>v, <2>2, <2>4, <2>a, <3>1, <3>2, <3>3
        DEF ContentsAgree, SlotOf, Held, Claim
    <2> QED
      BY <2>1, <2>3, <2>5 DEF SpscInv
  <1>5. ~ TakeBack(P)
    BY <1>0, <1>f DEF CountersAgree, TakeBack
  <1>6. ASSUME Store(P) PROVE SpscInv'
    <2>1. CountersAgree'
      BY <1>0, <1>6, <1>f, <1>i DEF CountersAgree, Held, Store, TypeOK
    <2>2. SlotsAgree'
      BY <1>0, <1>6, <1>f DEF SlotsAgree, SlotOf, Store, TypeOK
    <2>3. slot[P] = (m_write - 1) % InitialCapacity /\ m_capacity = InitialCapacity
      BY <1>0, <1>6 DEF CountersAgree, SlotsAgree, SlotOf, Store
    <2>4. m_write = m_max_read + 1 /\ m_write - m_read + Held <= InitialCapacity
          /\ Held <= m_read /\ m_read <= m_max_read
      BY <1>6, <1>f, <1>v DEF Store
    <2>5. ASSUME NEW i \in 1..m_max_read, i > m_read
          PROVE  (i - 1) % InitialCapacity # slot[P]
      <3>1. i - 1 \in Nat /\ m_write - 1 \in Nat /\ i - 1 < m_write - 1
            /\ m_write - 1 < i - 1 + InitialCapacity
        BY <1>f, <2>4, <2>5 DEF Held
      <3> QED
        BY <1>s, <2>3, <3>1
    <2>6. cpc = "move" => cslot # slot[P]
      <3> SUFFICES ASSUME cpc = "move" PROVE cslot # slot[P]
        OBVIOUS
      <3>1. m_read - 1 \in Nat /\ m_write - 1 \in Nat /\ m_read - 1 < m_write - 1
            /\ m_write - 1 < m_read - 1 + InitialCapacity
        BY <1>f, <2>4 DEF Held
      <3>2. cslot = (m_read - 1) % InitialCapacity
        BY <1>0, <2>3 DEF SlotsAgree, SlotOf
      <3> QED
        BY <1>s, <2>3, <3>1, <3>2
    <2>7. \A j \in 0..(m_capacity - 1) : m_buffer'[j] = IF j = slot[P] THEN value[P] ELSE m_buffer[j]
      BY <1>0, <1>6 DEF TypeOK, Store
    <2>8. \A i \in 1..m_max_read : i > m_read => (i - 1) % InitialCapacity \in 0..(m_capacity - 1)
      <3> TAKE i \in 1..m_max_read
      <3>1. i - 1 \in Nat
        BY <1>f
      <3> QED
        BY <1>f, <2>3, <3>1, RemainderInRange
    <2>9. ContentsAgree'
      BY SMTT(30), <1>0, <1>6, <1>f, <2>3, <2>5, <2>6, <2>7, <2>8
      DEF ContentsAgree, SlotOf, Held, Store, TypeOK
    <2> QED
      BY <2>1, <2>2, <2>9 DEF SpscInv
  <1>7. ASSUME Publish(P) PROVE SpscInv'
    <2>3. m_max_read' = m_max_read + 1 /\ m_write = m_max_read + 1
      BY <1>7, <1>f, <1>g, <1>v DEF Publish
    <2>1. CountersAgree'
      BY <1>0, <1>7, <1>f, <1>i, <2>3 DEF CountersAgree, Held, Publish, TypeOK
    <2>2. SlotsAgree'
      BY <1>0, <1>7, <1>f DEF SlotsAgree, SlotOf, Publish, TypeOK
    <2>4. ContentsAgree'
      <3>1. m_buffer[(m_write - 1) % m_capacity] = accepted[m_write]
        BY <1>0, <1>7, <1>f DEF ContentsAgree, SlotsAgree, SlotOf, Publish
      <3>2. ASSUME NEW i \in 1..(m_max_read + 1), i > m_read
            PROVE  m_buffer[(i - 1) % m_capacity] = accepted[i]
        <4>1. CASE i \in 1..m_max_read
          BY <1>0, <3>2, <4>1 DEF ContentsAgree, SlotOf
        <4>2. CASE i = m_write
          BY <3>1, <4>2
        <4> QED
          BY <1>f, <2>3, <4>1, <4>2
      <3> QED
        BY <1>0, <1>7, <1>f, <2>3, <3>2 DEF ContentsAgree, SlotOf, Held, Publish, TypeOK
    <2> QED
      BY <2>1, <2>2, <2>4 DEF SpscInv
  <1>8. CASE PopFront
    <2>1. CASE NothingToRead
      BY <1>0, <1>8, <2>1
      DEF SpscInv, CountersAgree, SlotsAgree, ContentsAgree, SlotOf, Held, PopFront
    <2>2. CASE ~ NothingToRead
      <3>1. m_read + 1 <= m_max_read /\ m_read' = m_read + 1 /\ cpc = "idle" /\ cpc' = "move"
            /\ cslot' = m_read % InitialCapacity /\ m_capacity = InitialCapacity
        <4>1. Inc(m_read) = m_read + 1
          BY <1>f, <1>g, <1>v
        <4>2. ~ (m_read + 1 > m_max_read) /\ m_read' = m_read + 1
          BY <1>8, <2>2, <4>1 DEF PopFront, NothingToRead
        <4> QED
          BY <1>8, <1>f, <1>v, <2>2, <4>2 DEF PopFront, SlotOf
      <3>2. CountersAgree'
        BY <1>0, <1>8, <1>f, <1>i, <3>1 DEF CountersAgree, Held, PopFront, TypeOK
      <3>3. SlotsAgree'
        BY <1>0, <1>8, <1>f, <3>1 DEF SlotsAgree, SlotOf, PopFront
      <3>4. ContentsAgree'
        BY <1>0, <1>8, <1>f, <3>1 DEF ContentsAgree, SlotOf, Held, PopFront
      <3> QED
        BY <3>2, <3>3, <3>4 DEF SpscInv
    <2> QED
      BY <2>1, <2>2
  <1>9. CASE MoveOut
    <2>1. CountersAgree' /\ SlotsAgree'
      BY <1>0, <1>9 DEF CountersAgree, SlotsAgree, SlotOf, Held, MoveOut
    <2>2. cslot = (m_read - 1) % InitialCapacity /\ m_capacity = InitialCapacity
          /\ m_read > 0 /\ Held = 1
      BY <1>0, <1>9, <1>f DEF CountersAgree, SlotsAgree, SlotOf, MoveOut, Held
    <2>3. m_write - m_read + 1 <= InitialCapacity /\ m_max_read <= m_write
      BY <1>0, <1>f, <2>2 DEF CountersAgree
    <2>4. ASSUME NEW b \in Nat, m_read - 1 < b, b < m_write
          PROVE  b % InitialCapacity # cslot
      <3>1. m_read - 1 \in Nat /\ b < m_read - 1 + InitialCapacity
        BY <1>f, <2>2, <2>3, <2>4
      <3> QED
        BY <1>s, <2>2, <2>4, <3>1
    <2>5. \A j \in 0..(m_capacity - 1) : j # cslot => m_buffer'[j] = m_buffer[j]
      BY <1>0, <1>9 DEF TypeOK, MoveOut
    <2>6. \A i \in 1..m_max_read : i > m_read =>
            m_buffer'[(i - 1) % InitialCapacity] = m_buffer[(i - 1) % InitialCapacity]
      <3> TAKE i \in 1..m_max_read
      <3> HAVE i > m_read
      <3>1. (i - 1) % InitialCapacity # cslot
        <4>1. i - 1 \in Nat /\ m_read - 1 < i - 1 /\ i - 1 < m_write
          BY <1>f, <2>3
        <4> QED
          BY <2>4, <4>1
      <3>2. (i - 1) % InitialCapacity \in 0..(m_capacity - 1)
        <4>1. i - 1 \in Nat
          BY <1>f
        <4> QED
          BY <1>f, <2>2, <4>1, RemainderInRange
      <3> QED
        BY <2>5, <3>1, <3>2
    <2>7. pc[P] = "publish" => m_buffer'[slot[P]] = m_buffer[slot[P]]
      <3> SUFFICES ASSUME pc[P] = "publish" PROVE m_buffer'[slot[P]] = m_buffer[slot[P]]
        OBVIOUS
      <3>1. m_write = m_max_read + 1 /\ m_read <= m_max_read
        BY <1>0, <1>f DEF CountersAgree
      <3>2. slot[P] = (m_write - 1) % InitialCapacity /\ slot[P] \in 0..(m_capacity - 1)
        BY <1>0, <2>2 DEF SlotsAgree, SlotOf, TypeOK
      <3>3. slot[P] # cslot
        <4>1. m_write - 1 \in Nat /\ m_read - 1 < m_write - 1 /\ m_write - 1 < m_write
          BY <1>f, <3>1
        <4> QED
          BY <2>4, <3>2, <4>1
      <3> QED
        BY <2>5, <3>2, <3>3
    <2>8. ContentsAgree'
      BY <1>0, <1>9, <1>f, <2>2, <2>6, <2>7 DEF ContentsAgree, SlotOf, Held, MoveOut
    <2> QED
      BY <2>1, <2>8 DEF SpscInv
  <1>10. CASE ReleaseSlot
    <2>1. CountersAgree'
      <3>1. Held = 1 /\ Held' = 0 /\ m_size' = Dec(m_size)
        BY <1>10 DEF Held, ReleaseSlot
      <3>2. 0 < m_size
        BY <1>f, <1>v, <3>1
      <3>3. m_size' = m_size - 1
        BY <1>f, <1>g, <3>1, <3>2
      <3>4. UNCHANGED <<m_read, m_write, m_max_read, m_capacity, pc, issued>>
        BY <1>10 DEF ReleaseSlot
      <3> QED
        BY <1>f, <1>i, <1>v, <3>1, <3>3, <3>4 DEF CountersAgree
    <2>2. SlotsAgree'
      BY <1>0, <1>10 DEF SlotsAgree, SlotOf, ReleaseSlot
    <2>3. /\ Len(delivered') = Len(delivered) + 1
          /\ delivered'[Len(delivered) + 1] = popped
          /\ \A i \in 1..Len(delivered) : delivered'[i] = delivered[i]
      BY <1>0, <1>10, AppendProperties DEF ReleaseSlot, TypeOK, InProgress
    <2>4. Len(delivered) = m_read - 1
      BY <1>0, <1>10 DEF ContentsAgree, Held, ReleaseSlot
    <2>5. ContentsAgree'
      BY <1>0, <1>10, <1>f, <2>3, <2>4 DEF ContentsAgree, SlotOf, Held, ReleaseSlot
    <2> QED
      BY <2>1, <2>2, <2>5 DEF SpscInv
  <1>11. CASE Front
    BY <1>0, <1>11 DEF SpscInv, CountersAgree, SlotsAgree, ContentsAgree, SlotOf, Held, Front
  <1>12. CASE Clear
    BY <1>0, <1>12, <1>f, <1>i
    DEF SpscInv, CountersAgree, SlotsAgree, ContentsAgree, SlotOf, Held, Clear, SetAll, Quiescent
  <1>13. ASSUME NEW n \in NewCapacities PROVE ~ Reserve(n)
    BY DEF SingleProducer, Reserve
  <1>14. ~ MoveConstruct
    BY DEF SingleProducer, MoveConstruct
  <1>15. CASE UNCHANGED vars
    BY <1>0, <1>15 DEF SpscInv, CountersAgree, SlotsAgree, ContentsAgree, SlotOf, Held, vars
  <1> QED
    BY <1>p, <1>1, <1>2, <1>3, <1>4, <1>5, <1>6, <1>7, <1>8, <1>9, <1>10, <1>11, <1>12,
       <1>13, <1>14, <1>15 DEF Next, ProducerStep, ConsumerStep

(* The inductive invariant holds throughout. *)
THEOREM SpscInvariant == ASSUME SingleProducer PROVE Spec => [](TypeInv /\ SpscInv)
  <1>1. Init => TypeInv /\ SpscInv
    BY TypeInit, SpscInit
  <1>2. TypeInv /\ SpscInv /\ [Next]_vars => (TypeInv /\ SpscInv)'
    BY TypeStep, SpscStep
  <1> QED
    BY <1>1, <1>2, PTL DEF Spec

(* With one producer no slot is ever written by one thread while the other
   reads it: the slot being stored and the slot being moved out belong to
   counters less than a capacity apart. *)
THEOREM SpscSlotRaceFree == ASSUME SingleProducer PROVE Spec => []NoSlotRace
  <1>1. TypeInv /\ SpscInv => NoSlotRace
    <2> SUFFICES ASSUME TypeInv, SpscInv, NEW p \in Producers,
                        pc[p] = "store", cpc = "move"
                 PROVE  cslot # slot[p]
      BY DEF NoSlotRace, SingleProducer
    <2>1. /\ m_read \in Nat /\ m_write \in Nat /\ m_max_read \in Nat
          /\ InitialCapacity \in Nat \ {0}
          /\ \A a, b \in Nat : a < b /\ b < a + InitialCapacity
                   => a % InitialCapacity # b % InitialCapacity
      BY SpscFacts
    <2>2. /\ m_read > 0 /\ m_read < m_write /\ m_write < m_read + InitialCapacity
          /\ m_capacity = InitialCapacity
      BY <2>1 DEF SpscInv, CountersAgree, Held
    <2>3. slot[p] = (m_write - 1) % InitialCapacity /\ cslot = (m_read - 1) % InitialCapacity
      BY <2>2 DEF SpscInv, SlotsAgree, SlotOf
    <2>4. m_read - 1 \in Nat /\ m_write - 1 \in Nat /\ m_read - 1 < m_write - 1
          /\ m_write - 1 < m_read - 1 + InitialCapacity
      BY <2>1, <2>2
    <2> QED
      BY <2>1, <2>3, <2>4
  <1> QED
    BY <1>1, SpscInvariant, PTL

(* With one producer pop_front() hands out exactly the elements that were
   pushed, in the order they were pushed. *)
THEOREM SpscDeliveredInOrder == ASSUME SingleProducer PROVE Spec => []DeliveredInOrder
  <1>1. TypeInv /\ SpscInv => DeliveredInOrder
    <2> SUFFICES ASSUME TypeInv, SpscInv PROVE DeliveredInOrder
      OBVIOUS
    <2>1. PICK p \in Producers : Producers = {p}
      BY DEF SingleProducer
    <2>2. m_read \in Nat /\ m_write \in Nat /\ m_max_read \in Nat
      BY SpscFacts, <2>1
    <2>3. m_read <= m_write
      BY <2>1, <2>2 DEF SpscInv, CountersAgree
    <2> QED
      BY <2>2, <2>3 DEF DeliveredInOrder, SpscInv, ContentsAgree, Held
  <1> QED
    BY <1>1, SpscInvariant, PTL

(* With one producer the counters agree whenever nobody is inside the queue,
   and no more places are taken than there are. *)
THEOREM SpscCounts == ASSUME SingleProducer PROVE Spec => [](QuiescentCounts /\ NeverOverclaimed)
  <1>1. TypeInv /\ SpscInv => QuiescentCounts /\ NeverOverclaimed
    <2> SUFFICES ASSUME TypeInv, SpscInv PROVE QuiescentCounts /\ NeverOverclaimed
      OBVIOUS
    <2>1. PICK p \in Producers : Producers = {p}
      BY DEF SingleProducer
    <2>2. m_read \in Nat /\ m_write \in Nat /\ m_max_read \in Nat /\ InitialCapacity \in Nat
      BY SpscFacts, <2>1
    <2>3. QuiescentCounts
      BY <2>1, <2>2 DEF QuiescentCounts, Quiescent, SpscInv, CountersAgree, Held
    <2>4. Cardinality({q \in Producers : pc[q] = "claim"}) = IF pc[p] = "claim" THEN 1 ELSE 0
      <3>1. CASE pc[p] = "claim"
        <4>1. {q \in Producers : pc[q] = "claim"} = {p}
          BY <2>1, <3>1
        <4> QED
          BY <3>1, <4>1, FS_Singleton
      <3>2. CASE pc[p] # "claim"
        <4>1. {q \in Producers : pc[q] = "claim"} = {}
          BY <2>1, <3>2
        <4> QED
          BY <3>2, <4>1, FS_EmptySet
      <3> QED
        BY <3>1, <3>2
    <2>5. NeverOverclaimed
      BY <2>1, <2>2, <2>4 DEF NeverOverclaimed, Occupied, SpscInv, CountersAgree, Held
    <2> QED
      BY <2>3, <2>5
  <1> QED
    BY <1>1, SpscInvariant, PTL

(* With one producer empty() is never true while an element waits. *)
THEOREM SpscEmpty == ASSUME SingleProducer PROVE Spec => []EmptyMeansNothingToRead
  <1>1. TypeInv /\ SpscInv => EmptyMeansNothingToRead
    <2> SUFFICES ASSUME TypeInv, SpscInv, m_size = 0 PROVE NothingToRead
      BY DEF EmptyMeansNothingToRead, Empty, Size
    <2>1. PICK p \in Producers : Producers = {p}
      BY DEF SingleProducer
    <2>2. m_read \in Nat /\ m_write \in Nat /\ m_max_read \in Nat
          /\ CounterModulus \in Nat /\ m_write + 1 < CounterModulus
      BY SpscFacts, <2>1
    <2>3. m_max_read = m_read /\ m_read = m_write
      BY <2>1, <2>2 DEF SpscInv, CountersAgree, Held
    <2>4. Inc(m_read) = m_read + 1
      BY <2>2, <2>3, RemainderOfSmall DEF Inc
    <2> QED
      BY <2>2, <2>3, <2>4 DEF NothingToRead
  <1> QED
    BY <1>1, SpscInvariant, PTL

(* With one producer a push finds the queue full only when it is: the test of
   increment_size() fails only if every place is taken at that moment. *)
THEOREM SpscRefusedOnlyWhenFull == ASSUME SingleProducer PROVE Spec => RefusedOnlyWhenFull
  <1>1. TypeInv /\ SpscInv /\ [Next]_vars =>
          [\A p \in Producers :
              pc[p] = "increment_size" /\ pc'[p] = "decrement_size"
                 => Occupied = m_capacity]_vars
    <2> SUFFICES ASSUME TypeInv, SpscInv, Next, NEW p \in Producers,
                        pc[p] = "increment_size", pc'[p] = "decrement_size"
                 PROVE  Occupied = m_capacity
      OBVIOUS
    <2>1. Producers = {p}
      BY DEF SingleProducer
    <2>2. pc \in [Producers -> {"idle", "increment_size", "decrement_size",
                                "claim", "take_back", "store", "publish"}]
      BY DEF TypeInv, TypeOK
    <2>3. IncrementSize(p)
      BY <2>1, <2>2
      DEF Next, ProducerStep, ConsumerStep, CallPush, DecrementSize, Claim, TakeBack, Store,
          Publish, PopFront, MoveOut, ReleaseSlot, Front, Clear, Reserve, MoveConstruct, producer
    <2>4. m_size >= m_capacity
      BY <2>2, <2>3 DEF IncrementSize, NoPlaceLeft
    <2>5. {q \in Producers : pc[q] = "claim"} = {}
      BY <2>1
    <2>6. Cardinality({q \in Producers : pc[q] = "claim"}) = 0
      BY <2>5, FS_EmptySet
    <2>7. m_read \in Nat /\ m_write \in Nat /\ m_size \in Nat /\ m_capacity \in Nat
      BY QueueAssumption, CapacityFacts DEF TypeInv, TypeOK, Word
    <2> QED
      BY <2>1, <2>4, <2>6, <2>7 DEF Occupied, SpscInv, CountersAgree, Held
  <1> QED
    BY <1>1, SpscInvariant, PTL DEF Spec, RefusedOnlyWhenFull
----------------------------------------------------------------------------
(* Any number of producers *)

(* The regime of the counters: finitely many producers, no overwriting, no
   relocation, and fewer pushes than wrap a counter. *)
ManyProducers ==
    /\ IsFiniteSet(Producers)
    /\ "force_push_back" \notin PushOps
    /\ OwnerOps \subseteq {"front", "clear"}
    /\ InitialCapacity + Cardinality(Producers) * (MaxPushes + 1) + 1 < CounterModulus

(* The producers at one of the points S of their push *)
At(S) == {p \in Producers : pc[p] \in S}

(* The points before a place is claimed *)
Unclaimed == {"increment_size", "decrement_size", "claim"}

(* A push in progress carries the element its producer issued last. *)
CarriesLast ==
    \A p \in Producers : pc[p] # "idle" => issued[p] # 0 /\ value[p] = <<p, issued[p]>>

(* The elements claimed after those of the constructor are different pushes,
   and none of them is still to be claimed. *)
Claimed == (InitialCapacity + 1)..Len(accepted)

ClaimedOnce ==
    \A i \in Claimed :
        /\ accepted[i] \in Producers \X (1..MaxPushes)
        /\ accepted[i][2] <= issued[accepted[i][1]]
        /\ pc[accepted[i][1]] \in Unclaimed => accepted[i][2] # issued[accepted[i][1]]
        /\ \A j \in Claimed : i # j => accepted[i] # accepted[j]

(* Each counter says what the threads inside the queue add up to. *)
CountsAgree ==
    /\ m_capacity = InitialCapacity
    /\ At({"take_back"}) = {}
    /\ Held <= m_read /\ m_read <= m_max_read
    /\ Len(accepted) = m_write
    /\ Len(delivered) = m_read - Held
    /\ m_write = m_max_read + Cardinality(At({"store", "publish"}))
    /\ m_size = m_write - m_read + Held + Cardinality(At({"claim", "decrement_size"}))
    /\ m_write - m_read + Held + Cardinality(At({"claim"})) <= m_capacity

MpscInv == CarriesLast /\ ClaimedOnce /\ CountsAgree

(* When at most one element enters or leaves a finite set, its cardinality
   changes by one. *)
LEMMA CountMoves ==
    ASSUME NEW F, NEW G, NEW p, IsFiniteSet(F),
           \A q : q # p => (q \in G <=> q \in F)
    PROVE  Cardinality(G) = Cardinality(F)
               + (IF p \in G THEN 1 ELSE 0) - (IF p \in F THEN 1 ELSE 0)
  <1>1. IsFiniteSet(F \ {p}) /\ Cardinality(F \ {p}) \in Nat
    BY FS_RemoveElement, FS_CardinalityType
  <1>2. Cardinality(F \ {p}) = Cardinality(F) - (IF p \in F THEN 1 ELSE 0)
        /\ Cardinality(F) \in Nat
    BY FS_RemoveElement, FS_CardinalityType
  <1>3. CASE p \in G
    <2>1. G = (F \ {p}) \cup {p}
      BY <1>3
    <2>2. Cardinality(G) = Cardinality(F \ {p}) + 1
      BY <1>1, <2>1, FS_AddElement
    <2> QED
      BY <1>1, <1>2, <1>3, <2>2
  <1>4. CASE p \notin G
    <2>1. G = F \ {p}
      BY <1>4
    <2> QED
      BY <1>1, <1>2, <1>4, <2>1
  <1> QED
    BY <1>3, <1>4

(* There are no more claims than pushes. *)
LEMMA ClaimsBounded ==
    ASSUME ManyProducers, TypeOK, ClaimedOnce
    PROVE  Len(accepted) <= InitialCapacity + Cardinality(Producers) * MaxPushes
  <1> DEFINE Pushes == Producers \X (1..MaxPushes)
             f == [i \in Claimed |-> accepted[i]]
  <1>1. /\ InitialCapacity \in Nat /\ MaxPushes \in Nat /\ IsFiniteSet(Producers)
        /\ Len(accepted) \in Nat
    BY QueueAssumption DEF ManyProducers, TypeOK
  <1>2. IsFiniteSet(1..MaxPushes) /\ Cardinality(1..MaxPushes) = MaxPushes
    BY SMTT(30), <1>1, FS_Interval
  <1>3. /\ IsFiniteSet(Pushes)
        /\ Cardinality(Pushes) = Cardinality(Producers) * MaxPushes
    BY <1>1, <1>2, FS_Product
  <1>4. f \in Injection(Claimed, Pushes)
    BY DEF ClaimedOnce, Injection, IsInjective
  <1> HIDE DEF f, Pushes
  <1>5. Cardinality(Claimed) <= Cardinality(Pushes)
    BY <1>3, <1>4, FS_Injection
  <1>6. CASE Len(accepted) > InitialCapacity
    <2>1. Cardinality(Claimed) = Len(accepted) - InitialCapacity
      BY <1>1, <1>6, FS_Interval DEF Claimed
    <2>2. Cardinality(Pushes) \in Nat
      BY <1>3, FS_CardinalityType
    <2> QED
      BY <1>1, <1>3, <1>5, <2>1, <2>2
  <1>7. CASE Len(accepted) <= InitialCapacity
    <2>1. Cardinality(Pushes) \in Nat
      BY <1>3, FS_CardinalityType
    <2> QED
      BY <1>1, <1>3, <1>7, <2>1
  <1> QED
    BY <1>1, <1>6, <1>7

(* What a step may rely on: counters that do not wrap. *)
LEMMA MpscFacts ==
    ASSUME ManyProducers, TypeOK, ClaimedOnce, CountsAgree
    PROVE  /\ m_read \in Nat /\ m_write \in Nat /\ m_max_read \in Nat /\ m_size \in Nat
           /\ InitialCapacity \in Nat \ {0}
           /\ \A S : IsFiniteSet(At(S)) /\ Cardinality(At(S)) \in Nat
           /\ m_write + 1 < CounterModulus /\ m_max_read + 1 < CounterModulus
           /\ m_read + 1 < CounterModulus /\ m_size + 1 < CounterModulus
           /\ \A x \in Nat : x + 1 < CounterModulus => Inc(x) = x + 1
           /\ \A x \in Nat : 0 < x /\ x < CounterModulus => Dec(x) = x - 1
           /\ Held \in {0, 1}
  <1>1. /\ InitialCapacity \in Nat \ {0} /\ CounterModulus \in Nat /\ MaxPushes \in Nat
        /\ m_read \in Nat /\ m_write \in Nat /\ m_max_read \in Nat /\ m_size \in Nat
    BY QueueAssumption DEF TypeOK, Word
  <1>2. ASSUME NEW S
        PROVE  IsFiniteSet(At(S)) /\ Cardinality(At(S)) \in Nat
                /\ Cardinality(At(S)) <= Cardinality(Producers)
    <2>1. At(S) \in SUBSET Producers
      BY DEF At
    <2> QED
      BY <2>1, FS_Subset, FS_CardinalityType DEF ManyProducers
  <1>3. Held \in {0, 1}
    BY DEF Held
  <1> DEFINE n == Cardinality(Producers)
             b == n * MaxPushes
  <1>4. n \in Nat /\ b \in Nat /\ InitialCapacity + b + n + 1 < CounterModulus
    <2>1. n \in Nat
      BY FS_CardinalityType DEF ManyProducers
    <2>2. n * (MaxPushes + 1) = n * MaxPushes + n /\ n * MaxPushes \in Nat
      BY <1>1, <2>1
    <2> QED
      BY <1>1, <2>1, <2>2 DEF ManyProducers
  <1>5. m_write <= InitialCapacity + b
    BY ClaimsBounded DEF CountsAgree
  <1> HIDE DEF b, n
  <1>6. m_write + 1 < CounterModulus /\ m_max_read + 1 < CounterModulus
        /\ m_read + 1 < CounterModulus
    BY SMTT(30), <1>1, <1>2, <1>4, <1>5 DEF CountsAgree
  <1>7. m_size + 1 < CounterModulus
    <2> DEFINE c == Cardinality(At({"claim"}))
               d == Cardinality(At({"decrement_size"}))
               e == Cardinality(At({"claim", "decrement_size"}))
    <2>1. e = c + d
      <3>1. At({"claim", "decrement_size"}) = At({"claim"}) \cup At({"decrement_size"})
            /\ At({"claim"}) \cap At({"decrement_size"}) = {}
        BY DEF At
      <3> QED
        BY SMTT(30), <1>2, <3>1, FS_Union, FS_EmptySet
    <2>2. c \in Nat /\ d \in Nat /\ d <= n
      BY <1>2 DEF n
    <2>3. m_write - m_read + Held + c <= InitialCapacity
          /\ m_size = m_write - m_read + Held + e
      BY DEF CountsAgree
    <2>4. InitialCapacity + n + 1 < CounterModulus
      BY <1>1, <1>4
    <2> HIDE DEF c, d, e
    <2> QED
      BY <1>1, <1>3, <1>4, <2>1, <2>2, <2>3, <2>4
  <1>8. \A x \in Nat : x + 1 < CounterModulus => Inc(x) = x + 1
    BY <1>1, RemainderOfSmall DEF Inc
  <1>9. \A x \in Nat : 0 < x /\ x < CounterModulus => Dec(x) = x - 1
    BY <1>1, RemainderOfPredecessor DEF Dec
  <1> QED
    BY <1>1, <1>2, <1>3, <1>6, <1>7, <1>8, <1>9

LEMMA MpscInit == ManyProducers /\ Init => MpscInv
  <1> SUFFICES ASSUME ManyProducers, Init PROVE MpscInv
    OBVIOUS
  <1>1. Idle /\ m_capacity = InitialCapacity /\ InitialCapacity \in Nat \ {0}
    BY QueueAssumption DEF Init, InitEmpty, InitFilled
  <1>2. \A p \in Producers : pc[p] = "idle"
    BY <1>1 DEF Idle
  <1>3. CarriesLast
    BY <1>2 DEF CarriesLast
  <1>4. Len(accepted) \in {0, InitialCapacity} /\ Len(delivered) = 0
        /\ m_write = Len(accepted) /\ m_max_read = m_write /\ m_size = m_write /\ m_read = 0
    BY <1>1 DEF Init, InitEmpty, InitFilled
  <1>5. ClaimedOnce
    BY <1>1, <1>4 DEF ClaimedOnce, Claimed
  <1>6. ASSUME NEW S, "idle" \notin S PROVE At(S) = {} /\ Cardinality(At(S)) = 0
    BY <1>2, <1>6, FS_EmptySet DEF At
  <1>7. CountsAgree
    BY <1>1, <1>4, <1>6 DEF CountsAgree, Held, Idle
  <1> QED
    BY <1>3, <1>5, <1>7 DEF MpscInv

(* One producer moves on: how the number of producers at some points changes. *)
LEMMA AtMoves ==
    ASSUME ManyProducers, TypeOK, NEW p \in Producers,
           \A q \in Producers : q # p => pc'[q] = pc[q], NEW S
    PROVE  Cardinality(At(S)') = Cardinality(At(S))
               + (IF pc'[p] \in S THEN 1 ELSE 0) - (IF pc[p] \in S THEN 1 ELSE 0)
  <1>2. IsFiniteSet(At(S))
    <2>1. At(S) \in SUBSET Producers
      BY DEF At
    <2> QED
      BY <2>1, FS_Subset DEF ManyProducers
  <1>3. \A q : q # p => (q \in At(S)' <=> q \in At(S))
    BY DEF At
  <1>4. (p \in At(S)' <=> pc'[p] \in S) /\ (p \in At(S) <=> pc[p] \in S)
    BY DEF At
  <1> DEFINE F == At(S)
             G == At(S)'
  <1>5. IsFiniteSet(F) /\ \A q : q # p => (q \in G <=> q \in F)
    BY <1>2, <1>3
  <1> HIDE DEF F, G
  <1>6. Cardinality(G) = Cardinality(F)
               + (IF p \in G THEN 1 ELSE 0) - (IF p \in F THEN 1 ELSE 0)
    BY <1>5, CountMoves
  <1> QED
    BY <1>4, <1>6 DEF F, G

(* A step of the queue keeps the elements apart and the counters exact. *)
LEMMA MpscStep == ManyProducers /\ TypeInv /\ MpscInv /\ [Next]_vars => MpscInv'
  <1> SUFFICES ASSUME ManyProducers, TypeInv, MpscInv, [Next]_vars PROVE MpscInv'
    OBVIOUS
  <1> USE DEF counters, producer, consumer, history
  <1>0. TypeOK /\ InProgress /\ CarriesLast /\ ClaimedOnce /\ CountsAgree
    BY DEF TypeInv, MpscInv
  <1>f. /\ m_read \in Nat /\ m_write \in Nat /\ m_max_read \in Nat /\ m_size \in Nat
        /\ InitialCapacity \in Nat \ {0} /\ Held \in {0, 1}
        /\ m_write + 1 < CounterModulus /\ m_max_read + 1 < CounterModulus
        /\ m_read + 1 < CounterModulus /\ m_size + 1 < CounterModulus
        /\ CounterModulus \in Nat
    BY <1>0, MpscFacts, QueueAssumption
  <1>g. /\ \A x \in Nat : x + 1 < CounterModulus => Inc(x) = x + 1
        /\ \A x \in Nat : 0 < x /\ x < CounterModulus => Dec(x) = x - 1
    BY <1>0, MpscFacts
  <1>h. \A S : Cardinality(At(S)) \in Nat
    BY <1>0, MpscFacts
  <1> DEFINE a == Cardinality(At({"store", "publish"}))
             e == Cardinality(At({"claim", "decrement_size"}))
             c == Cardinality(At({"claim"}))
             t == Cardinality(At({"take_back"}))
  <1>n. a \in Nat /\ e \in Nat /\ c \in Nat /\ c <= e /\ t = 0
    <2>1. At({"claim"}) \subseteq At({"claim", "decrement_size"})
      BY DEF At
    <2>2. IsFiniteSet(At({"claim", "decrement_size"})) /\ At({"take_back"}) = {}
      BY <1>0, MpscFacts DEF CountsAgree
    <2> QED
      BY <1>h, <2>1, <2>2, FS_Subset, FS_EmptySet
  <1>v. /\ m_capacity = InitialCapacity /\ Held <= m_read /\ m_read <= m_max_read
        /\ Len(accepted) = m_write /\ Len(delivered) = m_read - Held
        /\ m_write = m_max_read + a
        /\ m_size = m_write - m_read + Held + e
        /\ m_write - m_read + Held + c <= InitialCapacity
    BY <1>0 DEF CountsAgree
  (* A producer moves from one point to another. *)
  <1>ma. ASSUME NEW p \in Producers, \A q \in Producers : q # p => pc'[q] = pc[q]
        PROVE  /\ pc'[p] \in {"store", "publish"} /\ pc[p] \in {"store", "publish"} => a' = a
               /\ pc'[p] \notin {"store", "publish"} /\ pc[p] \notin {"store", "publish"} => a' = a
               /\ pc'[p] \in {"store", "publish"} /\ pc[p] \notin {"store", "publish"} => a' = a + 1
               /\ pc'[p] \notin {"store", "publish"} /\ pc[p] \in {"store", "publish"} => a' = a - 1
    <2>1. a' = a + (IF pc'[p] \in {"store", "publish"} THEN 1 ELSE 0)
                 - (IF pc[p] \in {"store", "publish"} THEN 1 ELSE 0)
      BY <1>0, <1>ma, AtMoves
    <2> HIDE DEF a, e, c
    <2> QED
      BY <1>n, <2>1
  <1>me. ASSUME NEW p \in Producers, \A q \in Producers : q # p => pc'[q] = pc[q]
        PROVE  /\ pc'[p] \in {"claim", "decrement_size"} /\ pc[p] \in {"claim", "decrement_size"} => e' = e
               /\ pc'[p] \notin {"claim", "decrement_size"} /\ pc[p] \notin {"claim", "decrement_size"} => e' = e
               /\ pc'[p] \in {"claim", "decrement_size"} /\ pc[p] \notin {"claim", "decrement_size"} => e' = e + 1
               /\ pc'[p] \notin {"claim", "decrement_size"} /\ pc[p] \in {"claim", "decrement_size"} => e' = e - 1
    <2>1. e' = e + (IF pc'[p] \in {"claim", "decrement_size"} THEN 1 ELSE 0)
                 - (IF pc[p] \in {"claim", "decrement_size"} THEN 1 ELSE 0)
      BY <1>0, <1>me, AtMoves
    <2> HIDE DEF a, e, c
    <2> QED
      BY <1>n, <2>1
  <1>mc. ASSUME NEW p \in Producers, \A q \in Producers : q # p => pc'[q] = pc[q]
        PROVE  /\ pc'[p] \in {"claim"} /\ pc[p] \in {"claim"} => c' = c
               /\ pc'[p] \notin {"claim"} /\ pc[p] \notin {"claim"} => c' = c
               /\ pc'[p] \in {"claim"} /\ pc[p] \notin {"claim"} => c' = c + 1
               /\ pc'[p] \notin {"claim"} /\ pc[p] \in {"claim"} => c' = c - 1
    <2>1. c' = c + (IF pc'[p] \in {"claim"} THEN 1 ELSE 0)
                 - (IF pc[p] \in {"claim"} THEN 1 ELSE 0)
      BY <1>0, <1>mc, AtMoves
    <2> HIDE DEF a, e, c
    <2> QED
      BY <1>n, <2>1
  <1>mt. ASSUME NEW p \in Producers, pc'[p] # "take_back",
                \A q \in Producers : q # p => pc'[q] = pc[q]
         PROVE  At({"take_back"})' = {}
    BY <1>0, <1>mt DEF CountsAgree, At, TypeOK
  (* A producer on its way from the size test to its slot is counted. *)
  <1>me1. ASSUME NEW p \in Producers, pc[p] \in {"claim", "decrement_size"} PROVE e > 0
    <2>1. At({"claim", "decrement_size"}) # {} /\ IsFiniteSet(At({"claim", "decrement_size"}))
      <3>1. p \in At({"claim", "decrement_size"})
        BY <1>me1 DEF At
      <3> QED
        BY <1>0, <3>1, MpscFacts
    <2>2. e # 0
      BY <2>1, FS_EmptySet
    <2> HIDE DEF e
    <2> QED
      BY <1>n, <2>2
  (* Nobody moves. *)
  <1>u. ASSUME UNCHANGED pc
        PROVE  a' = a /\ e' = e /\ c' = c /\ At({"take_back"})' = {}
    BY <1>0, <1>u DEF At, CountsAgree
  <1>z. ASSUME m_capacity' = InitialCapacity, At({"take_back"})' = {},
               Held' <= m_read', m_read' <= m_max_read',
               Len(accepted') = m_write', Len(delivered') = m_read' - Held',
               m_write' = m_max_read' + a', m_size' = m_write' - m_read' + Held' + e',
               m_write' - m_read' + Held' + c' <= InitialCapacity
        PROVE  CountsAgree'
    BY <1>z DEF CountsAgree
  <1> HIDE DEF a, e, c, t
  <1>1. ASSUME NEW p \in Producers, NEW o \in PushOps, CallPush(p, o) PROVE MpscInv'
    <2>1. CarriesLast'
      BY <1>0, <1>1 DEF CarriesLast, CallPush, TypeOK
    <2>2. ClaimedOnce'
      <3>1. \A i \in Claimed : accepted[i][1] \in Producers /\ accepted[i][2] \in Nat
        BY <1>0, QueueAssumption DEF ClaimedOnce
      <3>2. \A q \in Producers : issued[q] \in Nat
        BY <1>0, QueueAssumption DEF TypeOK
      <3>3. \A q \in Producers : /\ issued'[q] = IF q = p THEN issued[q] + 1 ELSE issued[q]
                                 /\ pc'[q] = IF q = p THEN "increment_size" ELSE pc[q]
        BY <1>0, <1>1 DEF CallPush, TypeOK
      <3>4. UNCHANGED accepted
        BY <1>1 DEF CallPush
      <3> QED
        BY <1>0, <3>1, <3>2, <3>3, <3>4 DEF ClaimedOnce, Claimed, Unclaimed
    <2>3. pc[p] = "idle" /\ pc' = [pc EXCEPT ![p] = "increment_size"]
          /\ UNCHANGED <<m_capacity, m_read, m_write, m_max_read, m_size, cpc, accepted, delivered>>
      BY <1>1 DEF CallPush
    <2>p. pc'[p] = "increment_size" /\ \A q \in Producers : q # p => pc'[q] = pc[q]
      BY <1>0, <2>3 DEF TypeOK
    <2>m. a' = a /\ e' = e /\ c' = c /\ At({"take_back"})' = {}
      BY <1>ma, <1>me, <1>mc, <1>mt, <2>3, <2>p
    <2>4. CountsAgree'
      BY <1>f, <1>n, <1>v, <1>z, <2>3, <2>m DEF Held
    <2> QED
      BY <2>1, <2>2, <2>4 DEF MpscInv
  (* A step that neither claims nor starts a push keeps the elements apart. *)
  <1>k. ASSUME UNCHANGED <<accepted, issued, value>>,
               \A q \in Producers : /\ pc'[q] # "idle" => pc[q] # "idle"
                                    /\ pc'[q] \in Unclaimed => pc[q] \in Unclaimed
        PROVE  CarriesLast' /\ ClaimedOnce'
    <2>1. CarriesLast'
      BY <1>0, <1>k DEF CarriesLast
    <2>2. \A i \in Claimed : accepted[i][1] \in Producers
      BY <1>0 DEF ClaimedOnce
    <2>3. ClaimedOnce'
      BY <1>0, <1>k, <2>2 DEF ClaimedOnce, Claimed
    <2> QED
      BY <2>1, <2>3
  <1>2. ASSUME NEW p \in Producers, IncrementSize(p) PROVE MpscInv'
    <2>1. /\ pc[p] = "increment_size" /\ m_size' = m_size + 1
          /\ UNCHANGED <<m_capacity, m_read, m_write, m_max_read, cpc, accepted, delivered,
                         issued, value>>
      BY <1>2, <1>f, <1>g DEF IncrementSize
    <2>2. pc' = [pc EXCEPT ![p] = IF m_size >= InitialCapacity THEN "decrement_size" ELSE "claim"]
      BY <1>2, <1>v DEF IncrementSize, NoPlaceLeft
    <2>3. CarriesLast' /\ ClaimedOnce'
      BY <1>0, <1>k, <2>1, <2>2 DEF Unclaimed, TypeOK
    <2>4. CountsAgree'
      <3>1. CASE m_size >= InitialCapacity
        <4>0. pc'[p] = "decrement_size" /\ \A q \in Producers : q # p => pc'[q] = pc[q]
          BY <1>0, <1>f, <2>2, <3>1 DEF TypeOK
        <4>m. a' = a /\ e' = e + 1 /\ c' = c /\ At({"take_back"})' = {}
          BY <1>ma, <1>me, <1>mc, <1>mt, <2>1, <4>0
        <4> QED
          BY <1>f, <1>n, <1>v, <1>z, <2>1, <3>1, <4>m DEF Held
      <3>2. CASE m_size < InitialCapacity
        <4>0. pc'[p] = "claim" /\ \A q \in Producers : q # p => pc'[q] = pc[q]
          BY <1>0, <1>f, <2>2, <3>2 DEF TypeOK
        <4>m. a' = a /\ e' = e + 1 /\ c' = c + 1 /\ At({"take_back"})' = {}
          BY <1>ma, <1>me, <1>mc, <1>mt, <2>1, <4>0
        <4> QED
          BY <1>f, <1>n, <1>v, <1>z, <2>1, <3>2, <4>m DEF Held
      <3> QED
        BY <1>f, <3>1, <3>2
    <2> QED
      BY <2>3, <2>4 DEF MpscInv
  <1>3. ASSUME NEW p \in Producers, DecrementSize(p) PROVE MpscInv'
    <2>0. op[p] \in {"push_back", "try_push_back"}
      BY <1>0, <1>3, QueueAssumption DEF InProgress, DecrementSize, ManyProducers
    <2>1. /\ pc[p] = "decrement_size"
          /\ UNCHANGED <<m_capacity, m_read, m_write, m_max_read, cpc, accepted, delivered,
                         issued, value>>
      BY <1>3 DEF DecrementSize
    <2>2. PICK x \in {"increment_size", "idle"} : pc' = [pc EXCEPT ![p] = x]
      BY <1>3, <2>0 DEF DecrementSize
    <2>3. CarriesLast' /\ ClaimedOnce'
      BY <1>0, <1>k, <2>1, <2>2 DEF Unclaimed, TypeOK
    <2>p. pc'[p] \in {"increment_size", "idle"} /\ \A q \in Producers : q # p => pc'[q] = pc[q]
      BY <1>0, <2>2 DEF TypeOK
    <2>4. a' = a /\ e' = e - 1 /\ c' = c /\ At({"take_back"})' = {} /\ e > 0
      BY <1>ma, <1>me, <1>me1, <1>mc, <1>mt, <2>1, <2>p
    <2>5. m_size > 0 /\ m_size' = m_size - 1
      <3>1. m_size > 0
        BY <1>f, <1>n, <1>v, <2>4
      <3> QED
        BY <1>3, <1>f, <1>g, <3>1 DEF DecrementSize
    <2>6. CountsAgree'
      BY <1>f, <1>n, <1>v, <1>z, <2>1, <2>4, <2>5 DEF Held
    <2> QED
      BY <2>3, <2>6 DEF MpscInv
  <1>4. ASSUME NEW p \in Producers, Claim(p) PROVE MpscInv'
    <2>1. /\ pc[p] = "claim" /\ pc' = [pc EXCEPT ![p] = "store"]
          /\ m_write' = m_write + 1 /\ accepted' = Append(accepted, value[p])
          /\ UNCHANGED <<m_capacity, m_read, m_max_read, m_size, cpc, delivered, issued, value>>
      BY <1>4, <1>f, <1>g DEF Claim
    <2>2. value[p] = <<p, issued[p]>> /\ issued[p] \in 1..MaxPushes
      <3>1. value[p] = <<p, issued[p]>>
        BY <1>0, <2>1 DEF CarriesLast
      <3>2. issued[p] \in 0..MaxPushes
        BY <1>0 DEF TypeOK
      <3>3. issued[p] # 0
        BY <1>0, <2>1 DEF CarriesLast
      <3> QED
        BY <3>1, <3>2, <3>3, QueueAssumption
    <2>3. /\ Len(accepted') = Len(accepted) + 1 /\ Len(accepted) \in Nat
          /\ accepted'[Len(accepted) + 1] = value[p]
          /\ \A i \in 1..Len(accepted) : accepted'[i] = accepted[i]
      BY <1>0, <2>1, <1>4, AppendProperties DEF TypeOK, InProgress
    <2>4. CarriesLast'
      BY <1>0, <2>1 DEF CarriesLast, TypeOK
    <2>5. ClaimedOnce'
      <3>1. \A i \in Claimed : /\ i \in 1..Len(accepted)
                               /\ accepted[i] \in Producers \X (1..MaxPushes)
                               /\ accepted[i] # value[p]
        BY <1>0, <1>f, <2>1, <2>2 DEF ClaimedOnce, Claimed, Unclaimed
      <3>2. \A i \in Claimed' : i \in Claimed \/ i = Len(accepted) + 1
        BY <1>f, <2>3 DEF Claimed
      <3>3. \A q \in Producers : pc'[q] \in Unclaimed => pc[q] \in Unclaimed /\ q # p
        BY <1>0, <2>1 DEF Unclaimed, TypeOK
      <3>4. \A i, j \in Claimed' : i # j => accepted'[i] # accepted'[j]
        BY <1>0, <2>3, <3>1, <3>2 DEF ClaimedOnce
      <3>5. ASSUME NEW i \in Claimed'
            PROVE  /\ accepted'[i] \in Producers \X (1..MaxPushes)
                   /\ accepted'[i][2] <= issued'[accepted'[i][1]]
                   /\ pc'[accepted'[i][1]] \in Unclaimed
                        => accepted'[i][2] # issued'[accepted'[i][1]]
        <4>1. CASE i \in Claimed
          BY <1>0, <2>1, <2>3, <3>1, <3>3, <4>1 DEF ClaimedOnce
        <4>2. CASE i = Len(accepted) + 1
          BY <2>1, <2>2, <2>3, <3>3, <4>2
        <4> QED
          BY <3>2, <4>1, <4>2
      <3> QED
        BY <3>4, <3>5 DEF ClaimedOnce
    <2>p. pc'[p] = "store" /\ \A q \in Producers : q # p => pc'[q] = pc[q]
      BY <1>0, <2>1 DEF TypeOK
    <2>m. a' = a + 1 /\ e' = e - 1 /\ c' = c - 1 /\ At({"take_back"})' = {}
      BY <1>ma, <1>me, <1>mc, <1>mt, <2>1, <2>p
    <2>6. CountsAgree'
      <3>1. /\ m_write' = m_write + 1 /\ Len(accepted') = Len(accepted) + 1
            /\ UNCHANGED <<m_capacity, m_read, m_max_read, m_size, cpc, delivered>>
        BY <2>1, <2>3
      <3> QED
        BY SMTT(30), <1>f, <1>n, <1>v, <1>z, <2>m, <3>1 DEF Held
    <2> QED
      BY <2>4, <2>5, <2>6 DEF MpscInv
  <1>5. ASSUME NEW p \in Producers PROVE ~ TakeBack(p)
    BY <1>0 DEF CountsAgree, At, TakeBack
  <1>6. ASSUME NEW p \in Producers, Store(p) PROVE MpscInv'
    <2>1. /\ pc[p] = "store" /\ pc' = [pc EXCEPT ![p] = "publish"]
          /\ UNCHANGED <<m_capacity, m_read, m_write, m_max_read, m_size, cpc, accepted,
                         delivered, issued, value>>
      BY <1>6 DEF Store
    <2>3. CarriesLast' /\ ClaimedOnce'
      BY <1>0, <1>k, <2>1 DEF Unclaimed, TypeOK
    <2>p. pc'[p] = "publish" /\ \A q \in Producers : q # p => pc'[q] = pc[q]
      BY <1>0, <2>1 DEF TypeOK
    <2>m. a' = a /\ e' = e /\ c' = c /\ At({"take_back"})' = {}
      BY <1>ma, <1>me, <1>mc, <1>mt, <2>1, <2>p
    <2>4. CountsAgree'
      BY <1>f, <1>n, <1>v, <1>z, <2>1, <2>m DEF Held
    <2> QED
      BY <2>3, <2>4 DEF MpscInv
  <1>7. ASSUME NEW p \in Producers, Publish(p) PROVE MpscInv'
    <2>1. /\ pc[p] = "publish" /\ pc' = [pc EXCEPT ![p] = "idle"]
          /\ m_max_read' = m_max_read + 1
          /\ UNCHANGED <<m_capacity, m_read, m_write, m_size, cpc, accepted, delivered,
                         issued, value>>
      BY <1>7, <1>f, <1>g DEF Publish
    <2>3. CarriesLast' /\ ClaimedOnce'
      BY <1>0, <1>k, <2>1 DEF Unclaimed, TypeOK
    <2>p. pc'[p] = "idle" /\ \A q \in Producers : q # p => pc'[q] = pc[q]
      BY <1>0, <2>1 DEF TypeOK
    <2>m. a' = a - 1 /\ e' = e /\ c' = c /\ At({"take_back"})' = {}
      BY <1>ma, <1>me, <1>mc, <1>mt, <2>1, <2>p
    <2>4. CountsAgree'
      BY <1>f, <1>n, <1>v, <1>z, <2>1, <2>m DEF Held
    <2> QED
      BY <2>3, <2>4 DEF MpscInv
  <1>8. CASE PopFront
    <2>1. CarriesLast' /\ ClaimedOnce' /\ UNCHANGED pc
      BY <1>8, <1>k DEF PopFront
    <2>2. CountsAgree'
      <3>1. CASE NothingToRead
        <4>1. UNCHANGED <<m_capacity, m_read, m_write, m_max_read, m_size, cpc, accepted, delivered>>
          BY <1>8, <3>1 DEF PopFront
        <4> QED
          BY <1>v, <1>u, <1>z, <2>1, <4>1 DEF Held
      <3>2. CASE ~ NothingToRead
        <4>1. m_read' = m_read + 1 /\ m_read + 1 <= m_max_read /\ cpc = "idle" /\ cpc' = "move"
              /\ UNCHANGED <<m_capacity, m_write, m_max_read, m_size, accepted, delivered>>
          BY <1>8, <1>f, <1>g, <3>2 DEF PopFront, NothingToRead
        <4>2. Held = 0 /\ Held' = 1
          BY <4>1 DEF Held
        <4> QED
          BY <1>f, <1>n, <1>v, <1>u, <1>z, <2>1, <4>1, <4>2
      <3> QED
        BY <3>1, <3>2
    <2> QED
      BY <2>1, <2>2 DEF MpscInv
  <1>9. CASE MoveOut
    <2>1. CarriesLast' /\ ClaimedOnce' /\ UNCHANGED pc
      BY <1>9, <1>k DEF MoveOut
    <2>2. Held' = Held /\ UNCHANGED <<m_capacity, m_read, m_write, m_max_read, m_size,
                                      accepted, delivered>>
      BY <1>9 DEF MoveOut, Held
    <2>3. CountsAgree'
      BY <1>v, <1>u, <1>z, <2>1, <2>2
    <2> QED
      BY <2>1, <2>3 DEF MpscInv
  <1>10. CASE ReleaseSlot
    <2>1. CarriesLast' /\ ClaimedOnce' /\ UNCHANGED pc
      BY <1>10, <1>k DEF ReleaseSlot
    <2>2. Held = 1 /\ Held' = 0 /\ UNCHANGED <<m_capacity, m_read, m_write, m_max_read, accepted>>
      BY <1>10 DEF ReleaseSlot, Held
    <2>3. m_size' = m_size - 1
      <3>1. m_size > 0
        BY <1>f, <1>n, <1>v, <2>2
      <3> QED
        BY <1>10, <1>f, <1>g, <3>1 DEF ReleaseSlot
    <2>4. Len(delivered') = Len(delivered) + 1
      BY <1>0, <1>10, AppendProperties DEF ReleaseSlot, TypeOK, InProgress
    <2>5. CountsAgree'
      BY <1>f, <1>n, <1>v, <1>u, <1>z, <2>1, <2>2, <2>3, <2>4
    <2> QED
      BY <2>1, <2>5 DEF MpscInv
  <1>11. CASE Front
    <2>1. CarriesLast' /\ ClaimedOnce' /\ UNCHANGED pc
      BY <1>11, <1>k DEF Front
    <2>2. Held' = Held /\ UNCHANGED <<m_capacity, m_read, m_write, m_max_read, m_size,
                                      accepted, delivered>>
      BY <1>11 DEF Front, Held
    <2>3. CountsAgree'
      BY <1>v, <1>u, <1>z, <2>1, <2>2
    <2> QED
      BY <2>1, <2>3 DEF MpscInv
  <1>12. CASE Clear
    <2>1. /\ \A p \in Producers : pc[p] = "idle"
          /\ cpc = "idle" /\ UNCHANGED <<pc, cpc, m_capacity>>
          /\ m_read' = 0 /\ m_write' = 0 /\ m_max_read' = 0 /\ m_size' = 0
          /\ accepted' = <<>> /\ delivered' = <<>>
      BY <1>12 DEF Clear, SetAll, Quiescent
    <2>2. CarriesLast'
      BY <2>1 DEF CarriesLast
    <2>3. ClaimedOnce'
      BY <1>f, <2>1 DEF ClaimedOnce, Claimed
    <2>4. a' = 0 /\ e' = 0 /\ c' = 0 /\ At({"take_back"})' = {}
      <3>1. ASSUME NEW S, "idle" \notin S PROVE At(S)' = {}
        BY <2>1, <3>1 DEF At
      <3> QED
        BY <3>1, FS_EmptySet DEF a, e, c
    <2>5. CountsAgree'
      BY <1>f, <1>v, <1>z, <2>1, <2>4 DEF Held
    <2> QED
      BY <2>2, <2>3, <2>5 DEF MpscInv
  <1>13. ASSUME NEW n \in NewCapacities PROVE ~ Reserve(n)
    BY DEF ManyProducers, Reserve
  <1>14. ~ MoveConstruct
    BY DEF ManyProducers, MoveConstruct
  <1>15. CASE UNCHANGED vars
    BY <1>0, <1>15 DEF MpscInv, CarriesLast, ClaimedOnce, Claimed, CountsAgree, At, Held, vars
  <1> QED
    BY <1>1, <1>2, <1>3, <1>4, <1>5, <1>6, <1>7, <1>8, <1>9, <1>10, <1>11, <1>12,
       <1>13, <1>14, <1>15 DEF Next, ProducerStep, ConsumerStep

(* Whatever number of threads pushes, the counters agree whenever nobody is
   inside the queue: every failed increment was taken back and every claim
   published. *)
THEOREM MpscCountsAtRest == ASSUME ManyProducers PROVE Spec => []QuiescentCounts
  <1>1. TypeInv /\ MpscInv => QuiescentCounts
    <2> SUFFICES ASSUME TypeInv, MpscInv, Quiescent
                 PROVE  m_max_read = m_write /\ m_size = m_write - m_read /\ m_size <= m_capacity
      BY DEF QuiescentCounts
    <2>1. /\ m_read \in Nat /\ m_write \in Nat /\ m_max_read \in Nat /\ InitialCapacity \in Nat
      BY MpscFacts DEF TypeInv, MpscInv
    <2>2. ASSUME NEW S, "idle" \notin S PROVE Cardinality(At(S)) = 0
      <3>1. At(S) = {}
        BY <2>2 DEF Quiescent, At
      <3> QED
        BY <3>1, FS_EmptySet
    <2>3. /\ Cardinality(At({"store", "publish"})) = 0
          /\ Cardinality(At({"claim", "decrement_size"})) = 0
          /\ Cardinality(At({"claim"})) = 0
      BY <2>2
    <2>4. Held = 0
      BY DEF Held, Quiescent
    <2> QED
      BY <2>1, <2>3, <2>4 DEF MpscInv, CountsAgree
  <1>2. Init => TypeInv /\ MpscInv
    BY TypeInit, MpscInit
  <1>3. TypeInv /\ MpscInv /\ [Next]_vars => (TypeInv /\ MpscInv)'
    BY TypeStep, MpscStep
  <1> QED
    BY <1>1, <1>2, <1>3, PTL DEF Spec

(* Whatever number of threads pushes, no more places are taken than there are:
   a producer that passed the size test finds its slot released. *)
THEOREM MpscNeverOverclaims == ASSUME ManyProducers PROVE Spec => []NeverOverclaimed
  <1>1. TypeInv /\ MpscInv => NeverOverclaimed
    <2> SUFFICES ASSUME TypeInv, MpscInv PROVE NeverOverclaimed
      OBVIOUS
    <2>1. {p \in Producers : pc[p] = "claim"} = At({"claim"})
      BY DEF At
    <2>2. m_read \in Nat /\ m_write \in Nat /\ Cardinality(At({"claim"})) \in Nat
      BY MpscFacts DEF TypeInv, MpscInv
    <2> QED
      BY <2>1, <2>2 DEF NeverOverclaimed, Occupied, MpscInv, CountsAgree, Held
  <1>2. Init => TypeInv /\ MpscInv
    BY TypeInit, MpscInit
  <1>3. TypeInv /\ MpscInv /\ [Next]_vars => (TypeInv /\ MpscInv)'
    BY TypeStep, MpscStep
  <1> QED
    BY <1>1, <1>2, <1>3, PTL DEF Spec

----------------------------------------------------------------------------
(* Relocation *)

(* reserve() keeps the oldest elements in order, as many as the new write index
   leaves room for, whatever came before it: the copy starts at m_read and goes
   once around the ring. *)
THEOREM ReserveCopiesInOrder == Spec => ReserveKeepsOldest
  <1>1. TypeInv /\ [Next]_vars =>
          [m_capacity' # m_capacity =>
             \A i \in 1..(m_max_read - m_read) :
                i < m_capacity => i <= m_max_read' /\ Pending'[i] = Pending[i]]_vars
    <2> SUFFICES ASSUME TypeInv, Next, m_capacity' # m_capacity,
                        NEW i \in 1..(m_max_read - m_read), i < m_capacity
                 PROVE  i <= m_max_read' /\ Pending'[i] = Pending[i]
      OBVIOUS
    <2>1. PICK n \in NewCapacities : Reserve(n)
      BY DEF Next, ProducerStep, ConsumerStep, CallPush, IncrementSize, DecrementSize, Claim,
             TakeBack, Store, Publish, PopFront, MoveOut, ReleaseSlot, Front, Clear, MoveConstruct
    <2>2. /\ m_read \in Nat /\ m_max_read \in Nat /\ m_capacity \in Nat \ {0}
          /\ n \in Nat /\ n > m_capacity /\ i - 1 \in Nat
      BY <2>1, CapacityFacts, QueueAssumption DEF TypeInv, TypeOK, Word, Reserve
    <2>3. m_read' = 0 /\ m_max_read' = m_capacity - 1 /\ m_capacity' = n
      BY <2>1 DEF Reserve
    <2>4. i - 1 \in 0..(n - 1) /\ i - 1 < m_capacity
      BY <2>2
    <2>5. m_buffer'[i - 1] = m_buffer[(m_read + (i - 1)) % m_capacity]
      BY <2>1, <2>4 DEF Reserve, SlotOf
    <2>6. (i - 1) % n = i - 1
      BY <2>2, <2>4, RemainderOfSmall
    <2>7. Pending'[i] = m_buffer'[(0 + i - 1) % n]
      BY <2>2, <2>3 DEF Pending, SlotOf
    <2>8. Pending[i] = m_buffer[(m_read + i - 1) % m_capacity]
      BY DEF Pending, SlotOf
    <2>9. 0 + i - 1 = i - 1 /\ m_read + i - 1 = m_read + (i - 1)
      BY <2>2
    <2> QED
      BY <2>2, <2>3, <2>5, <2>6, <2>7, <2>8, <2>9
  <1> QED
    BY <1>1, TypeInit, TypeStep, PTL DEF Spec, ReserveKeepsOldest

----------------------------------------------------------------------------
(* With one producer the queue implements BoundedFifo. *)

(* The state of the abstract queue that the refinement mapping gives *)
Hand == IF cpc = "idle" THEN None ELSE IF cpc = "move" THEN m_buffer[cslot] ELSE popped
Asked == [p \in Producers |-> IF pc[p] = "idle" \/ outcome[p] = "full" THEN None ELSE value[p]]

(* How far a push is answered: only a refused one carries "full", and what is
   about to be published is what was claimed. *)
AnswersAgree ==
    \A p \in Producers :
        /\ pc[p] \in {"increment_size", "claim", "store", "publish"} => outcome[p] # "full"
        /\ pc[p] = "decrement_size" => (outcome[p] = "full" <=> op[p] = "try_push_back")
        /\ pc[p] = "publish" => value[p] = accepted[m_write]

FifoInv == TypeInv /\ SpscInv /\ AnswersAgree

LEMMA FifoInvInit == SingleProducer /\ Init => FifoInv
  <1> SUFFICES ASSUME SingleProducer, Init PROVE FifoInv
    OBVIOUS
  <1>1. \A p \in Producers : pc[p] = "idle"
    BY DEF Init, InitEmpty, InitFilled, Idle
  <1> QED
    BY <1>1, TypeInit, SpscInit DEF FifoInv, AnswersAgree

LEMMA FifoInvStep == SingleProducer /\ FifoInv /\ [Next]_vars => FifoInv'
  <1> SUFFICES ASSUME SingleProducer, FifoInv, [Next]_vars PROVE AnswersAgree'
    BY TypeStep, SpscStep DEF FifoInv
  <1> USE DEF counters, producer, consumer, history
  <1>0. TypeOK /\ InProgress /\ SpscInv /\ AnswersAgree
    BY DEF FifoInv, TypeInv
  <1>p. PICK P \in Producers : Producers = {P}
    BY DEF SingleProducer
  <1>1. ASSUME NEW o \in PushOps, CallPush(P, o) PROVE AnswersAgree'
    BY <1>0, <1>p, <1>1 DEF AnswersAgree, CallPush, TypeOK
  <1>2. CASE IncrementSize(P)
    BY <1>0, <1>p, <1>2 DEF AnswersAgree, IncrementSize, TypeOK
  <1>3. CASE DecrementSize(P)
    <2>1. op[P] \in {"push_back", "try_push_back"}
      BY <1>0, <1>3, <1>p, QueueAssumption DEF InProgress, DecrementSize, SingleProducer
    <2> QED
      BY <1>0, <1>p, <1>3, <2>1 DEF AnswersAgree, DecrementSize, TypeOK
  <1>4. CASE Claim(P)
    BY <1>0, <1>p, <1>4 DEF AnswersAgree, Claim, TypeOK
  <1>5. CASE TakeBack(P)
    BY <1>0, <1>p, <1>5 DEF SpscInv, CountersAgree, TakeBack
  <1>6. CASE Store(P)
    <2>1. value[P] = accepted[m_write]
      BY <1>0, <1>p, <1>6 DEF SpscInv, ContentsAgree, Store
    <2> QED
      BY <1>0, <1>p, <1>6, <2>1 DEF AnswersAgree, Store, TypeOK
  <1>7. CASE Publish(P)
    BY <1>0, <1>p, <1>7 DEF AnswersAgree, Publish, TypeOK
  <1>8. CASE ConsumerStep \/ Front
    <2>1. UNCHANGED <<pc, outcome, op, value, accepted, m_write>>
      BY <1>8 DEF ConsumerStep, PopFront, MoveOut, ReleaseSlot, Front
    <2> QED
      BY <1>0, <2>1 DEF AnswersAgree
  <1>9. CASE Clear
    <2>1. UNCHANGED pc /\ \A p \in Producers : pc[p] = "idle"
      BY <1>9 DEF Clear, Quiescent
    <2> QED
      BY <2>1 DEF AnswersAgree
  <1>10. ASSUME NEW n \in NewCapacities PROVE ~ Reserve(n)
    BY DEF SingleProducer, Reserve
  <1>11. ~ MoveConstruct
    BY DEF SingleProducer, MoveConstruct
  <1>12. CASE UNCHANGED vars
    BY <1>0, <1>12 DEF AnswersAgree, vars
  <1> QED
    BY <1>p, <1>1, <1>2, <1>3, <1>4, <1>5, <1>6, <1>7, <1>8, <1>9, <1>10, <1>11, <1>12
    DEF Next, ProducerStep

(* What can be popped are the accepted elements between m_read and m_max_read,
   and the consumer holds the one before them. *)
PendingAgrees ==
    /\ m_read \in Nat /\ m_max_read \in Nat /\ m_max_read - m_read \in Nat
    /\ Pending \in Seq(Element) /\ Len(Pending) = m_max_read - m_read
    /\ \A i \in 1..(m_max_read - m_read) : Pending[i] = accepted[m_read + i]
    /\ Hand = IF cpc = "idle" THEN None ELSE accepted[m_read]
    /\ cpc # "idle" => Hand \in Element

LEMMA PendingIsAccepted == SingleProducer /\ FifoInv => PendingAgrees
  <1> SUFFICES ASSUME SingleProducer, FifoInv PROVE PendingAgrees
    OBVIOUS
  <1>1. PICK P \in Producers : Producers = {P}
    BY DEF SingleProducer
  <1>2. /\ m_read \in Nat /\ m_write \in Nat /\ m_max_read \in Nat /\ m_read <= m_max_read
        /\ m_max_read <= m_write /\ Held <= m_read
    BY <1>1, SpscFacts DEF FifoInv, SpscInv, CountersAgree
  <1>3. accepted \in Seq(Element) /\ Len(accepted) = m_write
    BY DEF FifoInv, TypeInv, TypeOK, SpscInv, ContentsAgree
  <1>4. ASSUME NEW i \in 1..(m_max_read - m_read)
        PROVE  m_buffer[SlotOf(m_read + i - 1)] = accepted[m_read + i]
               /\ accepted[m_read + i] \in Element
    <2> DEFINE k == m_read + i
    <2>1. k \in 1..m_max_read /\ k > m_read
      BY <1>2
    <2>2. accepted[k] \in Element
      BY <1>2, <1>3, <2>1
    <2>3. m_read + (i - 1) = k - 1
      BY <1>2
    <2> HIDE DEF k
    <2>4. m_buffer[SlotOf(k - 1)] = accepted[k]
      BY <2>1 DEF FifoInv, SpscInv, ContentsAgree
    <2>5. m_buffer[SlotOf(m_read + (i - 1))] = accepted[k]
      BY <2>3, <2>4
    <2> QED
      BY <2>2, <2>5 DEF k
  <1>5. Pending \in Seq(Element) /\ Len(Pending) = m_max_read - m_read
    BY <1>2, <1>4 DEF Pending
  <1>6. \A i \in 1..(m_max_read - m_read) : Pending[i] = accepted[m_read + i]
    BY <1>4 DEF Pending
  <1>7. Hand = IF cpc = "idle" THEN None ELSE accepted[m_read]
    BY DEF Hand, FifoInv, TypeInv, TypeOK, SpscInv, ContentsAgree
  <1>8. cpc # "idle" => accepted[m_read] \in Element
    BY <1>2, <1>3 DEF Held
  <1> QED
    BY <1>2, <1>5, <1>6, <1>7, <1>8 DEF PendingAgrees

(* A step that leaves that stretch alone leaves what can be popped alone. *)
LEMMA SamePending ==
    ASSUME PendingAgrees, PendingAgrees', UNCHANGED <<m_read, m_max_read>>,
           \A i \in 1..m_max_read : accepted'[i] = accepted[i]
    PROVE  Pending' = Pending
  <1>1. \A i \in 1..Len(Pending) : Pending'[i] = Pending[i]
    <2> TAKE i \in 1..Len(Pending)
    <2>1. m_read + i \in 1..m_max_read
      BY DEF PendingAgrees
    <2> QED
      BY <2>1 DEF PendingAgrees
  <1>2. /\ Pending \in Seq(Element) /\ Pending' \in Seq(Element) /\ Len(Pending) = Len(Pending')
    BY DEF PendingAgrees
  <1> QED
    BY <1>1, <1>2, SeqEqual

(* What a step of the single producer may rely on, and what it never touches *)
LEMMA ProducerKeeps ==
    ASSUME SingleProducer, FifoInv, PendingAgrees, PendingAgrees', NEW p \in Producers,
           ProducerStep(p) \/ \E o \in PushOps : CallPush(p, o)
    PROVE  /\ Hand' = Hand /\ m_read' = m_read
           /\ \A i \in 1..m_max_read : accepted'[i] = accepted[i]
  <1> USE DEF counters, producer, consumer, history
  <1>1. UNCHANGED <<cpc, cslot, popped, m_read>>
    BY DEF ProducerStep, CallPush, IncrementSize, DecrementSize, Claim, TakeBack, Store, Publish
  <1>2. ~ TakeBack(p)
    BY DEF FifoInv, SpscInv, CountersAgree, TakeBack
  <1>3. m_max_read \in Nat /\ Len(accepted) \in Nat /\ m_max_read <= Len(accepted)
        /\ accepted \in Seq(Element) /\ m_read <= m_max_read /\ m_read \in Nat
        /\ (cpc # "idle" => m_read > 0)
    <2>1. m_read \in Nat /\ m_max_read \in Nat /\ m_write \in Nat
      BY SpscFacts DEF FifoInv
    <2> QED
      BY <2>1 DEF FifoInv, TypeInv, TypeOK, SpscInv, CountersAgree, ContentsAgree, Held
  <1>4. \/ accepted' = accepted
        \/ accepted' = Append(accepted, value[p]) /\ value[p] \in Element
    <2>1. CASE Claim(p)
      BY <2>1 DEF Claim, FifoInv, TypeInv, InProgress
    <2>2. CASE ~ Claim(p)
      BY <1>2, <2>2 DEF ProducerStep, CallPush, IncrementSize, DecrementSize, Store, Publish
    <2> QED
      BY <2>1, <2>2
  <1>5. \A i \in 1..m_max_read : accepted'[i] = accepted[i]
    <2>1. \A i \in 1..m_max_read : i \in 1..Len(accepted)
      BY <1>3
    <2>2. CASE accepted' = accepted
      BY <2>2
    <2>3. CASE accepted' = Append(accepted, value[p]) /\ value[p] \in Element
      BY <1>3, <2>1, <2>3, AppendProperties
    <2> QED
      BY <1>4, <2>2, <2>3
  <1>6. cpc # "idle" => m_read \in 1..m_max_read
    BY <1>3
  <1> QED
    BY <1>1, <1>5, <1>6 DEF PendingAgrees

(* Every step of the producer is a step of the abstract queue or changes nothing
   there: a push takes effect when it publishes, and is refused when the size
   test fails. *)
LEMMA ProducerRefines ==
    ASSUME SingleProducer, FifoInv, PendingAgrees, PendingAgrees', NEW p \in Producers,
           ProducerStep(p) \/ \E o \in PushOps : CallPush(p, o)
    PROVE  Fifo!Next \/ UNCHANGED <<Pending, Hand, Asked, outcome>>
  <1> USE DEF counters, producer, consumer, history
  <1>0. TypeOK /\ InProgress /\ SpscInv /\ AnswersAgree /\ Producers = {p}
    BY DEF FifoInv, TypeInv, SingleProducer
  <1>k. /\ Hand' = Hand /\ m_read' = m_read
        /\ \A i \in 1..m_max_read : accepted'[i] = accepted[i]
    BY ProducerKeeps
  <1>s. m_max_read' = m_max_read => Pending' = Pending
    BY <1>k, SamePending
  <1>n. /\ m_read \in Nat /\ m_max_read \in Nat /\ m_write \in Nat /\ Held \in {0, 1}
        /\ InitialCapacity \in Nat \ {0} /\ m_capacity = InitialCapacity
        /\ CounterModulus \in Nat /\ m_write + 1 < CounterModulus
        /\ \A x \in Nat : x + 1 < CounterModulus => Inc(x) = x + 1
    BY <1>0, SpscFacts DEF FifoInv, SpscInv, CountersAgree, Held
  <1>o. /\ value[p] \in Element => value[p] # None
        /\ Hand = None <=> cpc = "idle"
        /\ Fifo!Occupied = Len(Pending) + Held
        /\ Len(Pending) = m_max_read - m_read
    <2>1. value[p] \in Element => value[p] # None
      BY ElementAssumption
    <2>2. Hand = None <=> cpc = "idle"
      BY ElementAssumption DEF PendingAgrees
    <2> QED
      BY <2>1, <2>2 DEF Fifo!Occupied, Hand, Held, PendingAgrees
  <1>1. ASSUME NEW o \in PushOps, CallPush(p, o) PROVE Fifo!Next
    <2>1. /\ pc[p] = "idle" /\ m_max_read' = m_max_read
          /\ pc'[p] = "increment_size" /\ outcome' = [outcome EXCEPT ![p] = "none"]
          /\ outcome'[p] = "none"
      BY <1>0, <1>1 DEF CallPush, TypeOK
    <2>2. PICK v \in Element : value'[p] = v
      <3>1. value'[p] = <<p, issued[p] + 1>> /\ issued[p] + 1 \in 1..MaxPushes
        BY <1>0, <1>1, QueueAssumption DEF CallPush, TypeOK
      <3> QED
        BY <3>1 DEF Element
    <2>3. Asked[p] = None /\ Asked' = [Asked EXCEPT ![p] = v]
      BY <1>0, <2>1, <2>2 DEF Asked
    <2>4. Fifo!Request(p, v)
      BY <1>k, <1>s, <2>1, <2>3 DEF Fifo!Request, Asked, Hand
    <2> QED
      BY <2>2, <2>4 DEF Fifo!Next
  <1>2. CASE IncrementSize(p)
    <2>1. /\ pc[p] = "increment_size" /\ m_max_read' = m_max_read /\ value' = value
          /\ outcome[p] # "full" /\ value[p] \in Element /\ pc'[p] # "idle"
      BY <1>0, <1>2 DEF IncrementSize, AnswersAgree, InProgress, TypeOK
    <2>2. CASE outcome' = outcome
      <3>1. Asked' = Asked
        BY <1>0, <2>1, <2>2 DEF Asked
      <3> QED
        BY <1>k, <1>s, <2>1, <2>2, <3>1
    <2>3. CASE outcome' = [outcome EXCEPT ![p] = "full"] /\ NoPlaceLeft(m_size)
      <3>1. Asked[p] = value[p] /\ Asked' = [Asked EXCEPT ![p] = None]
        BY <1>0, <2>1, <2>3 DEF Asked, TypeOK
      <3>2. m_size >= InitialCapacity /\ m_size = m_max_read - m_read + Held
            /\ m_max_read - m_read + Held <= InitialCapacity
        BY <1>0, <1>n, <2>1, <2>3 DEF NoPlaceLeft, SpscInv, CountersAgree
      <3>3. Fifo!Occupied = InitialCapacity
        BY <1>n, <1>o, <3>2
      <3>4. Fifo!Refuse(p)
        BY <1>k, <1>s, <1>o, <2>1, <2>3, <3>1, <3>3 DEF Fifo!Refuse, Asked, Hand
      <3> QED
        BY <3>4 DEF Fifo!Next
    <2> QED
      BY <1>2, <2>2, <2>3 DEF IncrementSize
  <1>3. CASE DecrementSize(p)
    <2>0. op[p] \in {"push_back", "try_push_back"}
      BY <1>0, <1>3, QueueAssumption DEF InProgress, DecrementSize, SingleProducer
    <2>1. /\ pc[p] = "decrement_size" /\ m_max_read' = m_max_read /\ value' = value
          /\ outcome' = outcome
          /\ outcome[p] = "full" <=> op[p] = "try_push_back"
          /\ pc'[p] = IF op[p] = "try_push_back" THEN "idle" ELSE "increment_size"
      BY <1>0, <1>3, <2>0 DEF DecrementSize, AnswersAgree, TypeOK
    <2>2. Asked' = Asked
      BY <1>0, <2>1 DEF Asked
    <2> QED
      BY <1>k, <1>s, <2>1, <2>2
  <1>4. CASE Claim(p) \/ Store(p)
    <2>1. /\ pc[p] # "idle" /\ pc'[p] # "idle" /\ m_max_read' = m_max_read /\ value' = value
          /\ outcome' = outcome
      BY <1>0, <1>4 DEF Claim, Store, TypeOK
    <2>2. Asked' = Asked
      BY <1>0, <2>1 DEF Asked
    <2> QED
      BY <1>k, <1>s, <2>1, <2>2
  <1>5. CASE TakeBack(p)
    BY <1>0, <1>5 DEF SpscInv, CountersAgree, TakeBack
  <1>6. CASE Publish(p)
    <2>1. /\ pc[p] = "publish" /\ pc'[p] = "idle" /\ value' = value /\ accepted' = accepted
          /\ outcome' = [outcome EXCEPT ![p] = "pushed"]
          /\ outcome[p] # "full" /\ value[p] \in Element /\ value[p] = accepted[m_write]
      BY <1>0, <1>6 DEF Publish, AnswersAgree, InProgress, TypeOK
    <2>2. m_write = m_max_read + 1 /\ m_write - m_read + Held <= InitialCapacity
          /\ m_read <= m_max_read
      BY <1>0, <1>n, <2>1 DEF SpscInv, CountersAgree
    <2>3. m_max_read' = m_max_read + 1
      BY <1>6, <1>n, <2>2 DEF Publish
    <2>4. Asked[p] = value[p] /\ Asked' = [Asked EXCEPT ![p] = None]
      BY <1>0, <2>1 DEF Asked, TypeOK
    <2>5. Pending' = Append(Pending, value[p])
      <3>1. /\ Pending \in Seq(Element) /\ Pending' \in Seq(Element)
            /\ Len(Pending) = m_max_read - m_read /\ Len(Pending') = m_max_read - m_read + 1
        BY <1>k, <1>n, <2>2, <2>3 DEF PendingAgrees
      <3>2. /\ Append(Pending, value[p]) \in Seq(Element)
            /\ Len(Append(Pending, value[p])) = Len(Pending) + 1
            /\ Append(Pending, value[p])[Len(Pending) + 1] = value[p]
            /\ \A i \in 1..Len(Pending) : Append(Pending, value[p])[i] = Pending[i]
        BY <2>1, <3>1, AppendProperties
      <3>3. ASSUME NEW i \in 1..Len(Pending') PROVE Pending'[i] = Append(Pending, value[p])[i]
        <4>1. Pending'[i] = accepted[m_read + i]
          BY <1>k, <2>1, <2>3, <3>1 DEF PendingAgrees
        <4>2. CASE i \in 1..Len(Pending)
          BY <3>1, <3>2, <4>1, <4>2 DEF PendingAgrees
        <4>3. CASE i = Len(Pending) + 1
          <5>1. m_read + i = m_write
            BY <1>n, <2>2, <3>1, <4>3
          <5> QED
            BY <2>1, <3>2, <4>1, <4>3, <5>1
        <4> QED
          BY SMTT(30), <1>n, <2>2, <3>1, <4>2, <4>3
      <3> DEFINE s == Pending'
                 t == Append(Pending, value[p])
      <3>4. s \in Seq(Element) /\ t \in Seq(Element) /\ Len(s) = Len(t)
            /\ \A i \in 1..Len(s) : s[i] = t[i]
        BY <1>n, <2>2, <3>1, <3>2, <3>3
      <3> HIDE DEF s, t
      <3>5. s = t
        BY <3>4, SeqEqual
      <3> QED
        BY <3>5 DEF s, t
    <2>6. Fifo!Occupied < InitialCapacity
      BY <1>n, <1>o, <2>2
    <2>7. Fifo!Put(p)
      BY <1>k, <1>o, <2>1, <2>4, <2>5, <2>6 DEF Fifo!Put, Asked, Hand
    <2> QED
      BY <2>7 DEF Fifo!Next
  <1> QED
    BY <1>1, <1>2, <1>3, <1>4, <1>5, <1>6 DEF ProducerStep

(* Every step of the consumer and of the owner is a step of the abstract queue
   or changes nothing there: a pop takes effect when it advances m_read. *)
LEMMA ConsumerRefines ==
    ASSUME SingleProducer, FifoInv, PendingAgrees, PendingAgrees',
           ConsumerStep \/ Front \/ Clear
    PROVE  Fifo!Next \/ UNCHANGED <<Pending, Hand, Asked, outcome>>
  <1> USE DEF counters, producer, consumer, history
  <1>0. TypeOK /\ InProgress /\ SpscInv /\ AnswersAgree
    BY DEF FifoInv, TypeInv
  <1>a. Asked' = Asked /\ outcome' = outcome
    BY DEF ConsumerStep, PopFront, MoveOut, ReleaseSlot, Front, Clear, Asked
  <1>n. /\ m_read \in Nat /\ m_max_read \in Nat /\ m_read + 1 < CounterModulus
        /\ \A x \in Nat : x + 1 < CounterModulus => Inc(x) = x + 1
    <2>1. PICK P \in Producers : Producers = {P}
      BY DEF SingleProducer
    <2>2. /\ m_read \in Nat /\ m_max_read \in Nat /\ m_write \in Nat /\ CounterModulus \in Nat
          /\ m_write + 1 < CounterModulus
          /\ \A x \in Nat : x + 1 < CounterModulus => Inc(x) = x + 1
      BY <2>1, SpscFacts, QueueAssumption DEF FifoInv
    <2>3. m_read <= m_write
      BY <1>0, <2>1, <2>2 DEF SpscInv, CountersAgree
    <2> QED
      BY <2>2, <2>3
  <1>h. Hand = None <=> cpc = "idle"
    BY ElementAssumption DEF PendingAgrees
  <1>1. CASE PopFront
    <2>1. CASE NothingToRead
      <3>1. UNCHANGED <<m_read, m_max_read, accepted>> /\ cpc = "idle" /\ cpc' = "idle"
        BY <1>1, <2>1 DEF PopFront
      <3>2. Pending' = Pending /\ Hand' = Hand
        BY <3>1, SamePending DEF Hand
      <3> QED
        BY <1>a, <3>2
    <2>2. CASE ~ NothingToRead
      <3>1. /\ m_read' = m_read + 1 /\ m_read + 1 <= m_max_read /\ cpc = "idle" /\ cpc' = "move"
            /\ UNCHANGED <<m_max_read, accepted>>
        BY <1>1, <1>n, <2>2 DEF PopFront, NothingToRead
      <3>2. /\ Pending \in Seq(Element) /\ Pending' \in Seq(Element)
            /\ Len(Pending) = m_max_read - m_read /\ Len(Pending') = m_max_read - m_read - 1
        BY <1>n, <3>1 DEF PendingAgrees
      <3>3. Pending # <<>> /\ Head(Pending) = Pending[1]
        BY <1>n, <3>1, <3>2
      <3>4. /\ Tail(Pending) \in Seq(Element) /\ Len(Tail(Pending)) = Len(Pending) - 1
            /\ \A i \in 1..Len(Tail(Pending)) : Tail(Pending)[i] = Pending[i + 1]
        BY <3>2, <3>3, HeadTailProperties
      <3>5. Head(Pending) = accepted[m_read + 1]
        BY <1>n, <3>1, <3>3 DEF PendingAgrees
      <3>6. ASSUME NEW i \in 1..Len(Pending') PROVE Pending'[i] = Tail(Pending)[i]
        <4>1. Pending'[i] = accepted[m_read + 1 + i]
          BY <1>n, <3>1, <3>2 DEF PendingAgrees
        <4>2. Pending[i + 1] = accepted[m_read + (i + 1)]
          BY <1>n, <3>1, <3>2 DEF PendingAgrees
        <4>3. m_read + 1 + i = m_read + (i + 1) /\ i \in 1..Len(Tail(Pending))
          BY <1>n, <3>1, <3>2, <3>4
        <4> QED
          BY <3>4, <4>1, <4>2, <4>3
      <3> DEFINE s == Pending'
                 t == Tail(Pending)
      <3>7. s \in Seq(Element) /\ t \in Seq(Element) /\ Len(s) = Len(t)
            /\ \A i \in 1..Len(s) : s[i] = t[i]
        BY <1>n, <3>1, <3>2, <3>4, <3>6
      <3> HIDE DEF s, t
      <3>8. s = t
        BY <3>7, SeqEqual
      <3>9. Hand = None /\ Hand' = Head(Pending)
        BY <1>h, <3>1, <3>5 DEF PendingAgrees
      <3>10. Pending' = Tail(Pending)
        BY <3>8 DEF s, t
      <3>11. Fifo!Take
        BY <1>a, <3>3, <3>9, <3>10 DEF Fifo!Take, Hand, Asked
      <3> QED
        BY <3>11 DEF Fifo!Next
    <2> QED
      BY <2>1, <2>2
  <1>2. CASE MoveOut
    <2>1. UNCHANGED <<m_read, m_max_read, accepted>> /\ cpc = "move" /\ cpc' = "release"
      BY <1>2 DEF MoveOut
    <2>2. Pending' = Pending /\ Hand' = Hand
      BY <2>1, SamePending DEF PendingAgrees
    <2> QED
      BY <1>a, <2>2
  <1>3. CASE ReleaseSlot
    <2>1. UNCHANGED <<m_read, m_max_read, accepted>> /\ cpc = "release" /\ cpc' = "idle"
      BY <1>3 DEF ReleaseSlot
    <2>2. Pending' = Pending /\ Hand # None /\ Hand' = None
      BY <1>h, <2>1, SamePending DEF PendingAgrees
    <2>3. Fifo!Finish
      BY <1>a, <2>2 DEF Fifo!Finish, Hand, Asked
    <2> QED
      BY <2>3 DEF Fifo!Next
  <1>4. CASE Front
    <2>1. UNCHANGED <<m_read, m_max_read, accepted, cpc, cslot, popped, m_buffer>>
      BY <1>4 DEF Front
    <2>2. Pending' = Pending /\ Hand' = Hand
      BY <2>1, SamePending DEF Hand
    <2> QED
      BY <1>a, <2>2
  <1>5. CASE Clear
    <2>1. cpc = "idle" /\ cpc' = "idle" /\ (\A p \in Producers : pc[p] = "idle")
          /\ m_read' = 0 /\ m_max_read' = 0
      BY <1>5 DEF Clear, SetAll, Quiescent
    <2>2. Pending' = <<>>
      <3>1. Pending' \in Seq(Element) /\ Len(Pending') = 0
        BY <2>1 DEF PendingAgrees
      <3> QED
        BY <3>1, EmptySeq
    <2>3. Hand = None /\ Hand' = Hand
      BY <2>1 DEF Hand
    <2>4. \A p \in Producers : Asked[p] = None
      BY <2>1 DEF Asked
    <2>5. Fifo!Reset
      BY <1>a, <2>2, <2>3, <2>4 DEF Fifo!Reset, Hand, Asked
    <2> QED
      BY <2>5 DEF Fifo!Next
  <1> QED
    BY <1>1, <1>2, <1>3, <1>4, <1>5 DEF ConsumerStep

(* With one producer LockFreeQueue implements a bounded FIFO queue: every access
   to shared memory is one step of that queue or invisible, for every capacity,
   counter width and number of pushes, with front() and clear() in between. *)
THEOREM SpscIsFifo == ASSUME SingleProducer PROVE Spec => ImplementsBoundedFifo
  <1>1. Init /\ PendingAgrees => Fifo!Init
    <2> SUFFICES ASSUME Init, PendingAgrees PROVE Fifo!Init
      OBVIOUS
    <2>1. /\ cpc = "idle" /\ outcome = [p \in Producers |-> "none"]
          /\ \A p \in Producers : pc[p] = "idle"
      BY DEF Init, InitEmpty, InitFilled, Idle
    <2>2. Hand = None /\ Asked = [p \in Producers |-> None]
      BY <2>1 DEF Hand, Asked
    <2>3. Pending \in {<<>>} \cup {[i \in 1..InitialCapacity |-> e] : e \in Element}
      <3>1. CASE InitEmpty
        <4>1. Pending \in Seq(Element) /\ Len(Pending) = 0
          BY <3>1 DEF InitEmpty, PendingAgrees
        <4>2. Pending = <<>>
          BY <4>1, EmptySeq
        <4> QED
          BY <4>2
      <3>2. CASE InitFilled
        <4>1. /\ m_read = 0 /\ m_max_read = InitialCapacity
              /\ \A i \in 1..InitialCapacity : accepted[i] = DefaultValue
          BY <3>2 DEF InitFilled
        <4>2. \A i \in 1..InitialCapacity : m_buffer[SlotOf(m_read + i - 1)] = DefaultValue
          <5> TAKE i \in 1..InitialCapacity
          <5>1. m_capacity = InitialCapacity
            BY <3>2 DEF InitFilled
          <5>2. m_read + (i - 1) \in Nat /\ InitialCapacity \in Nat \ {0}
            BY <4>1, QueueAssumption
          <5>3. SlotOf(m_read + (i - 1)) \in 0..(InitialCapacity - 1)
            BY <5>1, <5>2, RemainderInRange DEF SlotOf
          <5> QED
            BY <3>2, <5>3 DEF InitFilled
        <4>3. Pending = [i \in 1..InitialCapacity |-> DefaultValue]
          BY <4>1, <4>2, QueueAssumption DEF Pending
        <4> QED
          BY <4>3 DEF Element
      <3> QED
        BY <3>1, <3>2 DEF Init
    <2> QED
      BY <2>1, <2>2, <2>3 DEF Fifo!Init, Hand, Asked
  <1>2. FifoInv /\ PendingAgrees /\ PendingAgrees' /\ [Next]_vars
          => [Fifo!Next]_<<Pending, Hand, Asked, outcome>>
    <2> SUFFICES ASSUME FifoInv, PendingAgrees, PendingAgrees', [Next]_vars
                 PROVE  Fifo!Next \/ UNCHANGED <<Pending, Hand, Asked, outcome>>
      OBVIOUS
    <2>1. CASE UNCHANGED vars
      BY <2>1 DEF vars, counters, producer, consumer, history, Pending, Hand, Asked, SlotOf
    <2>2. ASSUME NEW n \in NewCapacities PROVE ~ Reserve(n)
      BY DEF SingleProducer, Reserve
    <2>3. ~ MoveConstruct
      BY DEF SingleProducer, MoveConstruct
    <2> QED
      BY <2>1, <2>2, <2>3, ProducerRefines, ConsumerRefines DEF Next
  <1>3. [][Fifo!Next]_<<Pending, Hand, Asked, outcome>> <=> [][Fifo!Next]_(Fifo!fifoVars)
    BY DEF Fifo!fifoVars, Hand, Asked
  <1> QED
    BY <1>1, <1>2, <1>3, FifoInvInit, FifoInvStep, PendingIsAccepted, PTL
    DEF Spec, ImplementsBoundedFifo, Fifo!Spec
===========
