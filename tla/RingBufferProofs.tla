-------------------------- MODULE RingBufferProofs --------------------------
(***************************************************************************)
(* What TLAPS proves of RingBuffer, for every capacity and every set of    *)
(* elements.  Whatever is called, the defective operations included: the   *)
(* indices stay inside the storage, no element is duplicated, and an       *)
(* iterator points at the slot of its index.  For the calls of SoundCalls: *)
(* the flags tell the truth, no call touches an object that is not there,  *)
(* and the buffer implements BoundedDeque.                                 *)
(***************************************************************************)
EXTENDS RingBuffer, SequenceTheorems, TLAPS

----------------------------------------------------------------------------
(* Arithmetic of the ring *)

(* The slot with index i of a ring that starts at s: at most one turn. *)
LEMMA TurnForward ==
    ASSUME NEW c \in Nat \ {0}, NEW s \in 0..(c - 1), NEW i \in 0..(c - 1)
    PROVE  /\ s + i < c => (s + i) % c = s + i
           /\ s + i >= c => (s + i) % c = s + i - c
  <1>1. ASSUME s + i < c PROVE (s + i) % c = s + i
    BY <1>1, SMT
  <1>2. ASSUME s + i >= c PROVE (s + i) % c = s + i - c
    BY <1>2, SMT
  <1> QED
    BY <1>1, <1>2

(* The index of slot k of a ring that starts at s. *)
LEMMA TurnBack ==
    ASSUME NEW c \in Nat \ {0}, NEW s \in 0..(c - 1), NEW k \in 0..(c - 1)
    PROVE  /\ k >= s => (k - s + c) % c = k - s
           /\ k < s => (k - s + c) % c = k - s + c
  <1>1. ASSUME k >= s PROVE (k - s + c) % c = k - s
    BY <1>1, SMT
  <1>2. ASSUME k < s PROVE (k - s + c) % c = k - s + c
    BY <1>2, SMT
  <1> QED
    BY <1>1, <1>2

(* The slot after slot k. *)
LEMMA NextSlot ==
    ASSUME NEW c \in Nat \ {0}, NEW k \in 0..(c - 1)
    PROVE  /\ k + 1 < c => (k + 1) % c = k + 1
           /\ k + 1 >= c => k = c - 1 /\ (k + 1) % c = 0
  <1>1. ASSUME k + 1 < c PROVE (k + 1) % c = k + 1
    BY <1>1, SMT
  <1>2. ASSUME k + 1 >= c PROVE k = c - 1 /\ (k + 1) % c = 0
    BY <1>2, SMT
  <1> QED
    BY <1>1, <1>2
(* Adjusted and IndexOf are inverses of each other on the slots. *)
LEMMA Inverses ==
    ASSUME NEW c \in Nat \ {0}, NEW s \in 0..(c - 1)
    PROVE  /\ \A i \in 0..(c - 1) : /\ (s + i) % c \in 0..(c - 1)
                                    /\ (((s + i) % c) - s + c) % c = i
           /\ \A k \in 0..(c - 1) : /\ (k - s + c) % c \in 0..(c - 1)
                                    /\ (s + ((k - s + c) % c)) % c = k
  <1>1. ASSUME NEW i \in 0..(c - 1)
        PROVE  (s + i) % c \in 0..(c - 1) /\ (((s + i) % c) - s + c) % c = i
    <2> DEFINE k == (s + i) % c
    <2>1. (s + i < c => k = s + i) /\ (s + i >= c => k = s + i - c)
      BY TurnForward
    <2> HIDE DEF k
    <2>2. k \in 0..(c - 1)
      BY <2>1
    <2>3. (k >= s => (k - s + c) % c = k - s) /\ (k < s => (k - s + c) % c = k - s + c)
      BY <2>2, TurnBack
    <2>4. (k - s + c) % c = i
      BY <2>1, <2>2, <2>3
    <2> QED
      BY <2>2, <2>4 DEF k
  <1>2. ASSUME NEW k \in 0..(c - 1)
        PROVE  (k - s + c) % c \in 0..(c - 1) /\ (s + ((k - s + c) % c)) % c = k
    <2> DEFINE i == (k - s + c) % c
    <2>1. (k >= s => i = k - s) /\ (k < s => i = k - s + c)
      BY TurnBack
    <2> HIDE DEF i
    <2>2. i \in 0..(c - 1)
      BY <2>1
    <2>3. (s + i < c => (s + i) % c = s + i) /\ (s + i >= c => (s + i) % c = s + i - c)
      BY <2>2, TurnForward
    <2>4. (s + i) % c = k
      BY <2>1, <2>2, <2>3
    <2> QED
      BY <2>2, <2>4 DEF i
  <1> QED
    BY <1>1, <1>2

(* The ring: every slot has one index and the write index is the index after
   the last element's. *)
LEMMA RingFacts ==
    ASSUME TypeOK
    PROVE  /\ m_capacity \in Nat \ {0} /\ Slots = 0..(m_capacity - 1)
           /\ m_start_index \in 0..(m_capacity - 1) /\ m_write_index \in 0..(m_capacity - 1)
           /\ Size \in 0..(m_capacity - 1) /\ Adjusted(Size) = m_write_index
           /\ \A i \in 0..(m_capacity - 1) : Adjusted(i) \in Slots /\ IndexOf(Adjusted(i)) = i
           /\ \A k \in Slots : IndexOf(k) \in 0..(m_capacity - 1) /\ Adjusted(IndexOf(k)) = k
  <1>1. m_capacity \in Nat \ {0}
    BY RingAssumption DEF TypeOK
  <1>2. m_start_index \in 0..(m_capacity - 1) /\ m_write_index \in 0..(m_capacity - 1)
    BY DEF TypeOK, Slots
  <1>3. /\ m_write_index >= m_start_index => Size = m_write_index - m_start_index
        /\ m_write_index < m_start_index => Size = m_capacity - (m_start_index - m_write_index)
    BY <1>1, <1>2 DEF Size
  <1>4. Size \in 0..(m_capacity - 1)
    BY <1>1, <1>2, <1>3
  <1>5. Adjusted(Size) = m_write_index
    <2>1. /\ m_start_index + Size < m_capacity => Adjusted(Size) = m_start_index + Size
          /\ m_start_index + Size >= m_capacity
                => Adjusted(Size) = m_start_index + Size - m_capacity
      BY <1>1, <1>2, <1>4, TurnForward DEF Adjusted
    <2> QED
      BY <1>1, <1>2, <1>3, <1>4, <2>1
  <1>6. \A i \in 0..(m_capacity - 1) : Adjusted(i) \in Slots /\ IndexOf(Adjusted(i)) = i
    BY <1>1, <1>2, Inverses DEF Adjusted, IndexOf, Slots
  <1>7. \A k \in Slots : IndexOf(k) \in 0..(m_capacity - 1) /\ Adjusted(IndexOf(k)) = k
    BY <1>1, <1>2, Inverses DEF Adjusted, IndexOf, Slots
  <1> QED
    BY <1>1, <1>2, <1>4, <1>5, <1>6, <1>7 DEF Slots
----------------------------------------------------------------------------
(* Type correctness *)

(* Where the moves of insert and erase take an object from: a run that lies
   within the elements of the buffer. *)
Run(first, n, by) == first \in Nat /\ n \in Int /\ by \in Int /\ first + n <= Size

(* What a move reads is in the storage. *)
LEMMA SourceInSlots ==
    ASSUME TypeOK, NEW first, NEW n, NEW by, Run(first, n, by), NEW k \in Slots,
           InRun(IndexOf(k) - by, first, n)
    PROVE  IndexOf(k) - by \in 0..(Size - 1) /\ Adjusted(IndexOf(k) - by) \in Slots
  <1>1. /\ m_capacity \in Nat \ {0} /\ Size \in 0..(m_capacity - 1)
        /\ IndexOf(k) \in 0..(m_capacity - 1)
        /\ \A i \in 0..(m_capacity - 1) : Adjusted(i) \in Slots
    BY RingFacts
  <1> DEFINE i == IndexOf(k) - by
  <1>2. i \in Int
    BY <1>1 DEF Run
  <1>3. first <= i /\ i < first + n
    BY DEF InRun
  <1> HIDE DEF i
  <1>4. i \in 0..(Size - 1) /\ i \in 0..(m_capacity - 1)
    BY <1>1, <1>2, <1>3 DEF Run
  <1> QED
    BY <1>1, <1>4 DEF i

(* The moves keep the slots filled with elements and the flags Boolean. *)
LEMMA MovedType ==
    ASSUME TypeOK, NEW first, NEW n, NEW by, Run(first, n, by)
    PROVE  /\ Moved(first, n, by) \in [Slots -> Elements \cup {Raw}]
           /\ MovedFlags(first, n, by) \in [DOMAIN m_constructed -> BOOLEAN]
  <1>1. m_buffer \in [Slots -> Elements \cup {Raw}]
        /\ m_constructed \in [DOMAIN m_constructed -> BOOLEAN]
    BY DEF TypeOK
  <1>2. \A k \in Slots : InRun(IndexOf(k) - by, first, n) => Adjusted(IndexOf(k) - by) \in Slots
    BY SourceInSlots
  <1>3. Moved(first, n, by) \in [Slots -> Elements \cup {Raw}]
    BY <1>1, <1>2 DEF Moved
  <1>4. MovedFlags(first, n, by) \in [DOMAIN m_constructed -> BOOLEAN]
    BY <1>1 DEF MovedFlags
  <1> QED
    BY <1>3, <1>4

LEMMA RingTypeInit == Init => TypeOK
  <1> SUFFICES ASSUME Init PROVE TypeOK
    OBVIOUS
  <1> USE RingAssumption
  <1>1. m_capacity = InitialCapacity + 1 /\ Slots = 0..InitialCapacity
    BY DEF Init, InitEmpty, InitList, InitRest, Slots
  <1>2. /\ m_start_index = 0 /\ it_index = 0 /\ it_slot = 0 /\ returned = None
        /\ undefined = FALSE /\ destroyed = FALSE
    BY DEF Init, InitEmpty, InitList, InitRest
  <1>3. m_write_index \in 0..InitialCapacity
    BY DEF Init, InitEmpty, InitList
  <1>4. m_buffer \in [0..InitialCapacity -> Elements \cup {Raw}]
    <2>1. CASE InitEmpty
      BY <2>1 DEF InitEmpty
    <2>2. CASE InitList
      <3>1. PICK values \in [0..(InitialCapacity - 1) -> Elements] :
               m_buffer = [k \in 0..InitialCapacity |->
                              IF k < InitialCapacity THEN values[k] ELSE Raw]
        BY <2>2 DEF InitList
      <3>2. \A k \in 0..InitialCapacity : k < InitialCapacity => k \in 0..(InitialCapacity - 1)
        OBVIOUS
      <3> QED
        BY <3>1, <3>2
    <2> QED
      BY <2>1, <2>2 DEF Init
  <1>5. m_constructed \in [DOMAIN m_constructed -> BOOLEAN]
    <2>1. CASE InitEmpty
      BY <2>1 DEF InitEmpty
    <2>2. CASE InitList
      <3>1. m_constructed = [k \in 0..InitialCapacity |-> k < InitialCapacity]
        BY <2>2 DEF InitList
      <3>2. \A k \in 0..InitialCapacity : (k < InitialCapacity) \in BOOLEAN
        BY SMT
      <3> QED
        BY <3>1, <3>2, Zenon
    <2> QED
      BY <2>1, <2>2 DEF Init
  <1>6. m_capacity \in {InitialCapacity + 1} \cup {n + 1 : n \in NewCapacities}
    BY <1>1
  <1>7. it_index \in Nat /\ it_slot \in Nat \cup {None}
    BY <1>2
  <1>8. returned \in Elements \cup {Raw, None}
    BY <1>2
  <1>9. m_write_index \in Slots /\ m_start_index \in Slots
    BY <1>1, <1>2, <1>3
  <1>10. undefined \in BOOLEAN /\ destroyed \in BOOLEAN
    BY <1>2
  <1> QED
    BY <1>1, <1>4, <1>5, <1>6, <1>7, <1>8, <1>9, <1>10 DEF TypeOK
(* What TypeOK says of the parts a call changes. *)
SlotsOK(buffer, c) == buffer \in [0..(c - 1) -> Elements \cup {Raw}]
FlagsOK(flags) == flags \in [DOMAIN flags -> BOOLEAN]

LEMMA TypeNext ==
    ASSUME TypeOK, m_capacity' = m_capacity,
           m_write_index' \in 0..(m_capacity - 1), m_start_index' \in 0..(m_capacity - 1),
           SlotsOK(m_buffer', m_capacity), FlagsOK(m_constructed'),
           it_index' \in Nat, it_slot' \in Nat \cup {None},
           returned' \in Elements \cup {Raw, None},
           undefined' \in BOOLEAN, destroyed' \in BOOLEAN
    PROVE  TypeOK'
  BY DEF TypeOK, SlotsOK, FlagsOK, Slots

(* The indices after increment_indices(). *)
LEMMA IncrementType ==
    ASSUME TypeOK, IncrementIndices
    PROVE  /\ m_capacity' = m_capacity
           /\ m_write_index' \in 0..(m_capacity - 1) /\ m_start_index' \in 0..(m_capacity - 1)
  <1>1. /\ m_capacity \in Nat \ {0} /\ m_start_index \in 0..(m_capacity - 1)
        /\ m_write_index \in 0..(m_capacity - 1)
    BY RingFacts
  <1> DEFINE w == (m_write_index + 1) % m_capacity
             s == (m_start_index + 1) % m_capacity
  <1>2. w \in 0..(m_capacity - 1) /\ s \in 0..(m_capacity - 1)
    BY <1>1, NextSlot
  <1>3. /\ m_write_index' = w /\ m_capacity' = m_capacity
        /\ (m_start_index' = s \/ m_start_index' = m_start_index)
    BY DEF IncrementIndices
  <1> HIDE DEF w, s
  <1> QED
    BY <1>1, <1>2, <1>3

(* The write index after decrement_write() and decrement_write_n(n). *)
LEMMA DecrementType ==
    ASSUME TypeOK
    PROVE  /\ DecrementedWrite \in 0..(m_capacity - 1)
           /\ \A n \in 0..Size : DecrementedWriteN(n) \in 0..(m_capacity - 1)
  <1>1. /\ m_capacity \in Nat \ {0} /\ Size \in 0..(m_capacity - 1)
        /\ m_write_index \in 0..(m_capacity - 1)
    BY RingFacts
  <1>2. DecrementedWrite \in 0..(m_capacity - 1)
    BY <1>1 DEF DecrementedWrite
  <1>3. ASSUME NEW n \in 0..Size PROVE DecrementedWriteN(n) \in 0..(m_capacity - 1)
    <2>1. n \in Int /\ n <= m_capacity - 1
      BY <1>1
    <2>2. CASE n > m_write_index
      BY <1>1, <2>1, <2>2 DEF DecrementedWriteN
    <2>3. CASE ~ (n > m_write_index)
      BY <1>1, <1>3, <2>1, <2>3 DEF DecrementedWriteN
    <2> QED
      BY <2>2, <2>3
  <1> QED
    BY <1>2, <1>3

LEMMA AppendType ==
    ASSUME TypeOK, NEW e \in Elements, Append_(e)
    PROVE  TypeOK'
  <1>1. /\ m_capacity' = m_capacity
        /\ m_write_index' \in 0..(m_capacity - 1) /\ m_start_index' \in 0..(m_capacity - 1)
    BY IncrementType DEF Append_
  <1>2. SlotsOK(m_buffer', m_capacity)
    BY DEF Append_, TypeOK, SlotsOK, Slots
  <1>3. FlagsOK(m_constructed')
    <2>1. m_constructed' = [m_constructed EXCEPT ![m_write_index] = TRUE]
      BY DEF Append_, SetConstructed
    <2> QED
      BY <2>1 DEF TypeOK, FlagsOK
  <1>4. undefined' \in BOOLEAN
    BY DEF Append_
  <1>5. UNCHANGED <<it_index, it_slot, returned, destroyed>>
    BY DEF Append_, iterator
  <1> QED
    BY <1>1, <1>2, <1>3, <1>4, <1>5, TypeNext DEF TypeOK
(* Every call keeps the indices inside the storage, erase(first, last) with its
   arithmetic on the write index included. *)
LEMMA RingTypeStep == TypeOK /\ [Next]_vars => TypeOK'
  <1> SUFFICES ASSUME TypeOK, [Next]_vars PROVE TypeOK'
    OBVIOUS
  <1> USE DEF indices, iterator
  <1>0. /\ m_capacity \in Nat \ {0} /\ Slots = 0..(m_capacity - 1)
        /\ m_start_index \in 0..(m_capacity - 1) /\ m_write_index \in 0..(m_capacity - 1)
        /\ Size \in 0..(m_capacity - 1) /\ Adjusted(Size) = m_write_index
        /\ \A i \in 0..(m_capacity - 1) : Adjusted(i) \in 0..(m_capacity - 1)
    BY RingFacts
  <1>i. \A i \in 0..Size : i \in 0..(m_capacity - 1)
    BY <1>0
  <1>b. /\ m_buffer \in [0..(m_capacity - 1) -> Elements \cup {Raw}]
        /\ m_constructed \in [DOMAIN m_constructed -> BOOLEAN]
        /\ it_index \in Nat /\ it_slot \in Nat \cup {None}
        /\ returned \in Elements \cup {Raw, None}
        /\ undefined \in BOOLEAN /\ destroyed \in BOOLEAN
    BY DEF TypeOK, Slots
  <1>u. SlotsOK(m_buffer, m_capacity) /\ FlagsOK(m_constructed)
    BY <1>b DEF SlotsOK, FlagsOK
  <1>f. \A k, v : v \in BOOLEAN => FlagsOK([m_constructed EXCEPT ![k] = v])
    BY <1>b DEF FlagsOK
  <1>s. \A k, v : v \in Elements \cup {Raw} => SlotsOK([m_buffer EXCEPT ![k] = v], m_capacity)
    BY <1>b DEF SlotsOK
  <1>m. ASSUME NEW first, NEW n, NEW by, Run(first, n, by)
        PROVE  /\ SlotsOK(Moved(first, n, by), m_capacity)
               /\ FlagsOK(MovedFlags(first, n, by))
               /\ \A k, v : v \in Elements \cup {Raw} =>
                     SlotsOK([Moved(first, n, by) EXCEPT ![k] = v], m_capacity)
               /\ \A k, v : v \in BOOLEAN => FlagsOK([MovedFlags(first, n, by) EXCEPT ![k] = v])
    <2>1. /\ Moved(first, n, by) \in [0..(m_capacity - 1) -> Elements \cup {Raw}]
          /\ MovedFlags(first, n, by) \in [DOMAIN m_constructed -> BOOLEAN]
      BY <1>0, <1>m, MovedType
    <2> DEFINE M == Moved(first, n, by)
               F == MovedFlags(first, n, by)
    <2>2. M \in [0..(m_capacity - 1) -> Elements \cup {Raw}]
          /\ F \in [DOMAIN m_constructed -> BOOLEAN]
      BY <2>1
    <2> HIDE DEF M, F
    <2>3. /\ SlotsOK(M, m_capacity) /\ FlagsOK(F)
          /\ \A k, v : v \in Elements \cup {Raw} => SlotsOK([M EXCEPT ![k] = v], m_capacity)
          /\ \A k, v : v \in BOOLEAN => FlagsOK([F EXCEPT ![k] = v])
      BY <2>2 DEF SlotsOK, FlagsOK
    <2> QED
      BY <2>3 DEF M, F
  <1>1. ASSUME NEW e \in Elements, PushBack(e) PROVE TypeOK'
    BY <1>1, AppendType DEF PushBack
  <1>2. ASSUME NEW e \in Elements, NEW pos \in 0..Size, Insert(pos, e) PROVE TypeOK'
    <2>1. CASE Adjusted(pos) = m_write_index
      BY <1>2, <2>1, AppendType DEF Insert
    <2>2. CASE Adjusted(pos) # m_write_index
      <3> DEFINE n == Size - pos
      <3>1. Run(pos, n, 1)
        BY <1>0 DEF Run
      <3>2. /\ m_buffer' = [Moved(pos, n, 1) EXCEPT ![Adjusted(pos)] = e]
            /\ m_constructed' = [MovedFlags(pos, n, 1) EXCEPT ![Adjusted(pos)] = TRUE]
            /\ undefined' = MoveUndefined(pos, n, 1)
            /\ IncrementIndices /\ UNCHANGED <<it_index, it_slot, returned, destroyed>>
        BY <1>2, <2>2 DEF Insert
      <3>3. undefined' \in BOOLEAN
        BY <3>2 DEF MoveUndefined
      <3>4. SlotsOK(m_buffer', m_capacity) /\ FlagsOK(m_constructed')
        BY <1>m, <3>1, <3>2
      <3> QED
        BY <1>b, <3>2, <3>3, <3>4, IncrementType, TypeNext
    <2> QED
      BY <2>1, <2>2
  <1>3. ASSUME NEW e \in Elements, NEW pos \in 0..Size, InsertFull(pos, e) PROVE TypeOK'
    <2>1. CASE Adjusted(pos) = m_write_index
      BY <1>3, <2>1, AppendType DEF InsertFull
    <2>2. CASE Adjusted(pos) # m_write_index
      <3> DEFINE n == Size - pos - 1
                 index == Adjusted(pos) + 1
      <3>1. Run(pos, n, 2)
        BY <1>0 DEF Run
      <3>2. /\ m_buffer' = [Moved(pos, n, 2) EXCEPT ![index] = e]
            /\ m_constructed' = [MovedFlags(pos, n, 2) EXCEPT ![index] = TRUE]
            /\ IncrementIndices /\ UNCHANGED <<it_index, it_slot, returned, destroyed>>
        BY <1>3, <2>2 DEF InsertFull
      <3>3. undefined' \in BOOLEAN
        <4>1. undefined' = (\/ MoveUndefined(pos, n, 2)
                            \/ index \notin Slots \/ NoFlag(index)
                            \/ /\ MovedFlags(pos, n, 2)[index]
                               /\ Moved(pos, n, 2)[index] = Raw)
          BY <1>3, <2>2 DEF InsertFull
        <4> QED
          BY <4>1, Zenon
      <3>4. SlotsOK(m_buffer', m_capacity) /\ FlagsOK(m_constructed')
        BY <1>m, <3>1, <3>2
      <3> QED
        BY <1>b, <3>2, <3>3, <3>4, IncrementType, TypeNext
    <2> QED
      BY <2>1, <2>2
  <1>4. ASSUME NEW e \in Elements, NEW pos \in 0..Size, Emplace(pos, e) PROVE TypeOK'
    <2> DEFINE index == Adjusted(pos)
    <2>0. m_buffer' = [k \in Slots |->
                          IF k = index THEN e
                          ELSE IF k = m_write_index /\ IsConstructed(index) THEN Raw
                          ELSE m_buffer[k]]
      BY <1>4 DEF Emplace
    <2>1. /\ m_constructed' = [m_constructed EXCEPT ![index] = TRUE]
          /\ UNCHANGED <<m_write_index, m_start_index, m_capacity>>
          /\ UNCHANGED <<it_index, it_slot, returned, destroyed>>
      BY <1>4 DEF Emplace, SetConstructed
    <2>2. SlotsOK(m_buffer', m_capacity)
      BY <1>0, <1>b, <2>0 DEF SlotsOK
    <2>3. undefined' \in BOOLEAN
      BY <1>4 DEF Emplace
    <2> QED
      BY <1>0, <1>b, <1>f, <2>1, <2>2, <2>3, TypeNext
  <1>5. CASE PopBack
    <2>1. CASE Size > 0
      <3>1. /\ returned' = m_buffer[Adjusted(Size - 1)]
            /\ m_write_index' = DecrementedWrite
            /\ m_buffer' = [m_buffer EXCEPT ![DecrementedWrite] = Raw]
            /\ m_constructed' = [m_constructed EXCEPT ![DecrementedWrite] = FALSE]
            /\ undefined' = (NoFlag(DecrementedWrite) \/ m_buffer[Adjusted(Size - 1)] = Raw)
            /\ UNCHANGED <<m_start_index, m_capacity, it_index, it_slot, destroyed>>
        BY <1>5, <2>1 DEF PopBack, SetConstructed
      <3>2. Size - 1 \in 0..(m_capacity - 1)
        BY <1>0, <2>1
      <3>3. returned' \in Elements \cup {Raw, None} /\ undefined' \in BOOLEAN
        BY <1>0, <1>b, <3>1, <3>2
      <3> QED
        BY <1>0, <1>b, <1>f, <1>s, <3>1, <3>3, DecrementType, TypeNext
    <2>2. CASE ~ (Size > 0)
      BY <1>0, <1>5, <1>b, <1>u, <2>2, TypeNext DEF PopBack
    <2> QED
      BY <2>1, <2>2
  <1>6. CASE PopFront
    <2>1. CASE Size > 0
      <3>1. /\ returned' = m_buffer[m_start_index]
            /\ m_start_index' = (m_start_index + 1) % m_capacity
            /\ m_buffer' = [m_buffer EXCEPT ![m_start_index] = Raw]
            /\ m_constructed' = [m_constructed EXCEPT ![m_start_index] = FALSE]
            /\ undefined' = (NoFlag(m_start_index) \/ m_buffer[m_start_index] = Raw)
            /\ UNCHANGED <<m_write_index, m_capacity, it_index, it_slot, destroyed>>
        BY <1>6, <2>1 DEF PopFront, SetConstructed
      <3>2. m_start_index' \in 0..(m_capacity - 1)
        BY <1>0, <3>1, NextSlot
      <3>3. returned' \in Elements \cup {Raw, None} /\ undefined' \in BOOLEAN
        BY <1>0, <1>b, <3>1
      <3> QED
        BY <1>0, <1>b, <1>f, <1>s, <3>1, <3>2, <3>3, TypeNext
    <2>2. CASE ~ (Size > 0)
      BY <1>0, <1>6, <1>b, <1>u, <2>2, TypeNext DEF PopFront
    <2> QED
      BY <2>1, <2>2
  <1>7. ASSUME NEW pos \in 0..Size, Erase(pos) PROVE TypeOK'
    <2>1. CASE Adjusted(pos) = m_write_index
      <3>1. /\ it_index' = Size /\ it_slot' = m_write_index
            /\ UNCHANGED <<m_buffer, m_constructed, m_write_index, undefined>>
            /\ UNCHANGED <<m_start_index, m_capacity, returned, destroyed>>
        BY <1>7, <2>1 DEF Erase
      <3> QED
        BY <1>0, <1>b, <1>u, <3>1, TypeNext
    <2>2. CASE Adjusted(pos) # m_write_index
      <3> DEFINE n == (Size - 1) - pos
      <3>1. Run(pos + 1, n, -1)
        BY <1>0 DEF Run
      <3>2. /\ m_buffer' = Moved(pos + 1, n, -1) /\ m_constructed' = MovedFlags(pos + 1, n, -1)
            /\ undefined' = MoveUndefined(pos + 1, n, -1)
            /\ m_write_index' = DecrementedWrite
            /\ it_index' = pos /\ it_slot' = Adjusted(pos)
            /\ UNCHANGED <<m_start_index, m_capacity, returned, destroyed>>
        BY <1>7, <2>2 DEF Erase
      <3>3. undefined' \in BOOLEAN
        BY <3>2 DEF MoveUndefined
      <3>4. SlotsOK(m_buffer', m_capacity) /\ FlagsOK(m_constructed')
        BY <1>m, <3>1, <3>2
      <3>5. it_index' \in Nat /\ it_slot' \in Nat \cup {None}
        BY SMTT(30), <1>0, <1>i, <3>2
      <3> QED
        BY <1>0, <1>b, <3>2, <3>3, <3>4, <3>5, DecrementType, TypeNext
    <2> QED
      BY <2>1, <2>2
  <1>8. ASSUME NEW first \in 0..Size, NEW last \in 0..Size, EraseRange(first, last) PROVE TypeOK'
    <2> DEFINE n == Size - last
               d == last - first
    <2>0. first < last /\ d \in 0..Size
      BY <1>0, <1>8 DEF EraseRange
    <2>d. DecrementedWriteN(d) \in 0..(m_capacity - 1)
      BY <2>0, DecrementType
    <2>1. CASE Adjusted(last) > m_write_index
      <3>1. /\ m_write_index' = CutBack(d) /\ it_slot' = CutBack(d)
            /\ it_index' = IF CutBack(d) >= m_start_index THEN CutBack(d) - m_start_index
                           ELSE m_capacity - (m_start_index - CutBack(d))
            /\ UNCHANGED <<m_buffer, m_constructed, undefined>>
            /\ UNCHANGED <<m_start_index, m_capacity, returned, destroyed>>
        BY <1>8, <2>1 DEF EraseRange
      <3>2. CutBack(d) \in 0..(m_capacity - 1)
        <4> HIDE DEF d
        <4>1. CASE m_write_index > m_start_index
          BY <2>d, <4>1 DEF CutBack
        <4>2. CASE m_write_index = m_start_index
          BY <1>0, <4>2 DEF CutBack
        <4>3. CASE m_write_index < m_start_index
          <5> DEFINE after == IF m_write_index > d THEN m_write_index - d ELSE 0
          <5>1. CutBack(d) = IF after > 0 THEN (m_capacity - 1) - (after - 1)
                                          ELSE DecrementedWriteN(d)
            BY <1>0, <4>3 DEF CutBack
          <5>2. after \in 0..(m_capacity - 1)
            BY <1>0, <2>0
          <5> HIDE DEF after
          <5> QED
            BY SMTT(30), <1>0, <2>d, <5>1, <5>2
        <4> QED
          BY <1>0, <4>1, <4>2, <4>3
      <3> DEFINE w == CutBack(d)
      <3>3. it_index' \in Nat
        <4> HIDE DEF w
        <4>1. it_index' = IF w >= m_start_index THEN w - m_start_index
                          ELSE m_capacity - (m_start_index - w)
          BY <3>1 DEF w
        <4>2. w \in 0..(m_capacity - 1)
          BY <3>2 DEF w
        <4> QED
          BY <1>0, <4>1, <4>2
      <3>4. it_slot' \in Nat \cup {None}
        BY <1>0, <3>1, <3>2
      <3> QED
        BY <1>0, <1>b, <1>u, <3>1, <3>2, <3>3, <3>4, TypeNext
    <2>2. CASE ~ (Adjusted(last) > m_write_index)
      <3>1. Run(last, n, first - last)
        BY <1>0 DEF Run
      <3>2. /\ m_buffer' = Moved(last, n, first - last)
            /\ m_constructed' = MovedFlags(last, n, first - last)
            /\ undefined' = MoveUndefined(last, n, first - last)
            /\ m_write_index' = DecrementedWriteN(d)
            /\ it_index' = first /\ it_slot' = Adjusted(first)
            /\ UNCHANGED <<m_start_index, m_capacity, returned, destroyed>>
        BY <1>8, <2>2 DEF EraseRange
      <3>3. undefined' \in BOOLEAN
        BY <3>2 DEF MoveUndefined
      <3>4. SlotsOK(m_buffer', m_capacity) /\ FlagsOK(m_constructed')
        BY <1>m, <3>1, <3>2
      <3>5. it_index' \in Nat /\ it_slot' \in Nat \cup {None}
        <4>1. first \in 0..(m_capacity - 1) /\ first \in Nat
          BY <1>i
        <4>2. Adjusted(first) \in Nat
          BY <1>0, <4>1
        <4> QED
          BY <3>2, <4>1, <4>2
      <3> QED
        BY <1>0, <1>b, <2>d, <3>2, <3>3, <3>4, <3>5, TypeNext
    <2> QED
      BY <2>1, <2>2
  <1>9. CASE Clear
    <2>1. SlotsOK(m_buffer', m_capacity)
      BY <1>0, <1>9, <1>b DEF Clear, Emptied, SlotsOK
    <2>2. FlagsOK(m_constructed')
      BY <1>9, <1>b DEF Clear, FlagsOK
    <2>3. undefined' \in BOOLEAN
      BY <1>9 DEF Clear
    <2>4. /\ m_start_index' = 0 /\ m_write_index' = 0
          /\ UNCHANGED <<m_capacity, it_index, it_slot, returned, destroyed>>
      BY <1>9 DEF Clear
    <2> QED
      BY <1>0, <1>b, <2>1, <2>2, <2>3, <2>4, TypeNext
  <1>10. CASE MoveAssign
    <2>1. FlagsOK(m_constructed')
      BY <1>10 DEF MoveAssign, FlagsOK
    <2> QED
      BY <1>0, <1>10, <1>b, <1>u, <2>1, TypeNext DEF MoveAssign
  <1>11. CASE Destroy
    <2>1. SlotsOK(m_buffer', m_capacity)
      BY <1>0, <1>11, <1>b DEF Destroy, SlotsOK
    <2>2. undefined' \in BOOLEAN /\ destroyed' \in BOOLEAN
      BY <1>11 DEF Destroy
    <2>3. UNCHANGED <<m_constructed, m_write_index, m_start_index, m_capacity, it_index, it_slot,
                      returned>>
      BY <1>11 DEF Destroy
    <2> QED
      BY <1>0, <1>b, <1>u, <2>1, <2>2, <2>3, TypeNext
  <1>12. ASSUME NEW c \in NewCapacities, Reserve(c) PROVE TypeOK'
    <2>1. /\ m_capacity' = c + 1 /\ c > m_capacity
          /\ m_start_index' = 0 /\ m_write_index' = m_capacity - 1
          /\ it_slot' = None /\ UNCHANGED <<it_index, returned, destroyed>>
      BY <1>12 DEF Reserve
    <2>2. c \in Nat /\ Slots' = 0..c
      BY <2>1, RingAssumption DEF Slots
    <2>3. m_buffer' \in [0..c -> Elements \cup {Raw}]
      <3>1. m_buffer' = [k \in 0..c |-> IF k < Size THEN Contents[k + 1] ELSE Raw]
        BY <1>12 DEF Reserve
      <3>2. ASSUME NEW k \in 0..c, k < Size PROVE Contents[k + 1] \in Elements \cup {Raw}
        <4>1. k + 1 \in 1..Size /\ k \in 0..(m_capacity - 1) /\ (k + 1) - 1 = k
          BY <1>0, <2>2, <3>2
        <4>2. Contents[k + 1] = m_buffer[Adjusted(k)]
          BY <4>1 DEF Contents
        <4> QED
          BY <1>0, <1>b, <4>1, <4>2
      <3> QED
        BY <3>1, <3>2
    <2>4. m_constructed' \in [DOMAIN m_constructed' -> BOOLEAN]
      <3>1. m_constructed' = [k \in 0..(c - 1) |-> k < Size /\ IsConstructed(Adjusted(k))]
        BY <1>12 DEF Reserve
      <3>2. DOMAIN m_constructed' = 0..(c - 1)
        BY <3>1
      <3>3. \A k \in 0..(c - 1) : m_constructed'[k] \in BOOLEAN
        BY <3>1
      <3> QED
        BY <3>1, <3>2, <3>3, Zenon
    <2>5. undefined' \in BOOLEAN
      BY <1>12 DEF Reserve
    <2>6. m_capacity' \in {InitialCapacity + 1} \cup {n + 1 : n \in NewCapacities}
      BY <2>1
    <2>7. m_write_index' \in Slots' /\ m_start_index' \in Slots'
      BY <1>0, <2>1, <2>2
    <2> QED
      BY <1>b, <2>1, <2>2, <2>3, <2>4, <2>5, <2>6, <2>7 DEF TypeOK
  <1>13. ASSUME Iterate PROVE TypeOK'
    <2>1. /\ it_index' \in Nat /\ it_slot' \in Nat \cup {None}
          /\ UNCHANGED <<m_buffer, m_constructed, m_write_index, m_start_index, m_capacity,
                         returned, undefined, destroyed>>
      <3>0. \A i \in Nat : i % m_capacity \in Nat
        BY <1>0
      <3>1. \A i \in Nat : Adjusted(i) \in Nat
        BY <1>0, <3>0 DEF Adjusted
      <3>2. m_start_index \in Nat /\ m_write_index \in Nat /\ Size \in Nat /\ Capacity \in Nat
        BY <1>0 DEF Capacity
      <3>3. CASE Begin \/ End
        BY <3>2, <3>3 DEF Begin, End, PointAt
      <3>4. CASE Increment
        BY <1>b, <3>1, <3>2, <3>4 DEF Increment, PointAt
      <3>5. CASE Decrement
        <4>1. it_index - 1 \in Nat
          BY <1>b, <3>5 DEF Decrement
        <4> QED
          BY <3>1, <3>5, <4>1 DEF Decrement, PointAt
      <3>6. ASSUME NEW n \in Slots, Advance(n)
            PROVE  /\ it_index' \in Nat /\ it_slot' \in Nat \cup {None}
                   /\ UNCHANGED <<m_buffer, m_constructed, m_write_index, m_start_index,
                                  m_capacity, returned, undefined, destroyed>>
        <4>1. it_index + n \in Nat
          BY <1>0, <1>b
        <4> QED
          BY <3>1, <3>2, <3>6, <4>1 DEF Advance, PointAt
      <3>7. ASSUME NEW n \in Slots, Retreat(n)
            PROVE  /\ it_index' \in Nat /\ it_slot' \in Nat \cup {None}
                   /\ UNCHANGED <<m_buffer, m_constructed, m_write_index, m_start_index,
                                  m_capacity, returned, undefined, destroyed>>
        <4>1. ~ (n > it_index) => it_index - n \in Nat
          BY <1>0, <1>b
        <4> QED
          BY <3>1, <3>2, <3>7, <4>1 DEF Retreat, PointAt
      <3> QED
        BY <1>13, <3>3, <3>4, <3>5, <3>6, <3>7 DEF Iterate
    <2> QED
      BY <1>0, <1>b, <1>u, <2>1, TypeNext
  <1>14. CASE UNCHANGED vars
    BY <1>0, <1>14, <1>b, <1>u, TypeNext DEF vars
  <1> QED
    BY <1>1, <1>2, <1>3, <1>4, <1>5, <1>6, <1>7, <1>8, <1>9, <1>10, <1>11, <1>12, <1>13, <1>14
    DEF Next, Over

(* Whatever is called, the indices and the slots of a RingBuffer stay inside its
   storage (increment_indices, decrement_write, decrement_write_n, reserve). *)
THEOREM RingTypeCorrect == Spec => []TypeOK
  BY RingTypeInit, RingTypeStep, PTL DEF Spec
----------------------------------------------------------------------------
(* No element twice *)

(* No element is in two of the slots S. *)
Once(buffer, S) ==
    \A j, k \in S : j # k /\ buffer[j] = buffer[k] => buffer[j] = Raw

(* Emptying slots duplicates nothing. *)
LEMMA OnceEmptied ==
    ASSUME NEW S, NEW old, NEW new, Once(old, S),
           \A k \in S : new[k] = old[k] \/ new[k] = Raw
    PROVE  Once(new, S)
  BY DEF Once

(* Neither does storing an element that is in none of them. *)
LEMMA OnceStored ==
    ASSUME NEW S, NEW old \in [S -> Elements \cup {Raw}], NEW x, NEW e, Once(old, S),
           \A k \in S : old[k] # e
    PROVE  Once([old EXCEPT ![x] = e], S)
  <1> DEFINE new == [old EXCEPT ![x] = e]
  <1> SUFFICES ASSUME NEW j \in S, NEW k \in S, j # k, new[j] = new[k] PROVE new[j] = Raw
    BY DEF Once
  <1>1. \A i \in S : new[i] = IF i = x THEN e ELSE old[i]
    OBVIOUS
  <1>2. j # x /\ k # x
    BY <1>1
  <1>3. old[j] = old[k] /\ new[j] = old[j]
    BY <1>1, <1>2
  <1> QED
    BY <1>3 DEF Once

(* Nor do the moves of insert and erase: the sources of two moves differ, and a
   source is emptied or overwritten. *)
LEMMA OnceMoved ==
    ASSUME TypeOK, NoElementTwice, NEW first, NEW n, NEW by, Run(first, n, by)
    PROVE  /\ Once(Moved(first, n, by), Slots)
           /\ \A e \in Elements : Fresh(e) => \A k \in Slots : Moved(first, n, by)[k] # e
  <1> DEFINE M == Moved(first, n, by)
             From(k) == Adjusted(IndexOf(k) - by)
             Takes(k) == InRun(IndexOf(k) - by, first, n) /\ IsConstructed(From(k))
             Leaves(k) == InRun(IndexOf(k), first, n) /\ IsConstructed(k)
  <1>1. \A k \in Slots : /\ Takes(k) => M[k] = m_buffer[From(k)]
                         /\ ~ Takes(k) /\ Leaves(k) => M[k] = Raw
                         /\ ~ Takes(k) /\ ~ Leaves(k) => M[k] = m_buffer[k]
    BY DEF Moved
  <1>2. ASSUME NEW k \in Slots, Takes(k)
        PROVE  From(k) \in Slots /\ IndexOf(From(k)) = IndexOf(k) - by /\ Leaves(From(k))
    <2>1. IndexOf(k) - by \in 0..(Size - 1) /\ From(k) \in Slots
      BY <1>2, SourceInSlots
    <2>2. IndexOf(k) - by \in 0..(m_capacity - 1)
      BY <2>1, RingFacts
    <2>3. IndexOf(From(k)) = IndexOf(k) - by
      BY <2>2, RingFacts
    <2> QED
      BY <1>2, <2>1, <2>3
  <1>3. ASSUME NEW j \in Slots, NEW k \in Slots, j # k, Takes(j), Takes(k)
        PROVE  From(j) # From(k)
    <2>1. IndexOf(j) \in Int /\ IndexOf(k) \in Int /\ by \in Int /\ IndexOf(j) # IndexOf(k)
      BY <1>3, RingFacts DEF Run
    <2>2. IndexOf(From(j)) = IndexOf(j) - by /\ IndexOf(From(k)) = IndexOf(k) - by
      BY <1>2, <1>3
    <2>3. IndexOf(j) - by # IndexOf(k) - by
      BY <2>1
    <2> QED
      BY <2>2, <2>3
  <1>4. ASSUME NEW j \in Slots, NEW k \in Slots, Takes(j), ~ Takes(k), M[j] = M[k]
        PROVE  M[j] = Raw
    <2>1. CASE Leaves(k)
      BY <1>1, <1>4, <2>1
    <2>2. CASE ~ Leaves(k)
      <3>1. From(j) \in Slots /\ From(j) # k
        BY <1>2, <1>4, <2>2
      <3>2. m_buffer[From(j)] = m_buffer[k] /\ M[j] = m_buffer[From(j)]
        BY <1>1, <1>4, <2>2
      <3> QED
        BY <3>1, <3>2 DEF NoElementTwice
    <2> QED
      BY <2>1, <2>2
  <1> HIDE DEF M, Takes, Leaves, From
  <1>5. ASSUME NEW j \in Slots, NEW k \in Slots, j # k, M[j] = M[k] PROVE M[j] = Raw
    <2>1. CASE Takes(j) /\ Takes(k)
      <3>1. From(j) # From(k) /\ From(j) \in Slots /\ From(k) \in Slots
        BY <1>2, <1>3, <1>5, <2>1
      <3>2. m_buffer[From(j)] = m_buffer[From(k)] /\ M[j] = m_buffer[From(j)]
        BY <1>1, <1>5, <2>1
      <3> QED
        BY <3>1, <3>2 DEF NoElementTwice
    <2>2. CASE Takes(j) /\ ~ Takes(k)
      BY <1>4, <1>5, <2>2
    <2>3. CASE ~ Takes(j) /\ Takes(k)
      BY <1>4, <1>5, <2>3
    <2>4. CASE ~ Takes(j) /\ ~ Takes(k)
      BY <1>1, <1>5, <2>4 DEF NoElementTwice
    <2> QED
      BY <2>1, <2>2, <2>3, <2>4
  <1>6. ASSUME NEW e \in Elements, Fresh(e), NEW k \in Slots PROVE M[k] # e
    BY <1>1, <1>2, <1>6, RingAssumption DEF Fresh
  <1> QED
    BY <1>5, <1>6 DEF Once, M
LEMMA OnceStep == TypeOK /\ NoElementTwice /\ [Next]_vars => NoElementTwice'
  <1> SUFFICES ASSUME TypeOK, NoElementTwice, [Next]_vars PROVE NoElementTwice'
    OBVIOUS
  <1> USE DEF indices, iterator
  <1>0. /\ m_capacity \in Nat \ {0} /\ Slots = 0..(m_capacity - 1)
        /\ Size \in 0..(m_capacity - 1)
        /\ \A i \in 0..(m_capacity - 1) : Adjusted(i) \in Slots /\ IndexOf(Adjusted(i)) = i
    BY RingFacts
  <1>b. m_buffer \in [Slots -> Elements \cup {Raw}]
    BY DEF TypeOK
  <1>o. Once(m_buffer, Slots)
    BY DEF NoElementTwice, Once
  <1>n. ASSUME m_capacity' = m_capacity, Once(m_buffer', Slots) PROVE NoElementTwice'
    BY <1>n DEF Once, NoElementTwice, Slots
  (* A call that only empties slots *)
  <1>e. ASSUME m_capacity' = m_capacity,
               \A k \in Slots : m_buffer'[k] = m_buffer[k] \/ m_buffer'[k] = Raw
        PROVE  NoElementTwice'
    BY <1>e, <1>n, <1>o, OnceEmptied
  <1>a. ASSUME NEW e \in Elements, Fresh(e), Append_(e) PROVE NoElementTwice'
    <2>1. /\ m_buffer' = [m_buffer EXCEPT ![m_write_index] = e] /\ m_capacity' = m_capacity
      BY <1>a DEF Append_, IncrementIndices
    <2>2. \A k \in Slots : m_buffer[k] # e
      BY <1>a DEF Fresh
    <2> QED
      BY <1>b, <1>n, <1>o, <2>1, <2>2, OnceStored
  <1>m. ASSUME NEW first, NEW n, NEW by, Run(first, n, by), NEW x, NEW e \in Elements, Fresh(e),
               m_buffer' = [Moved(first, n, by) EXCEPT ![x] = e], m_capacity' = m_capacity
        PROVE  NoElementTwice'
    <2> DEFINE M == Moved(first, n, by)
    <2>1. M \in [Slots -> Elements \cup {Raw}]
      BY <1>m, MovedType
    <2>2. Once(M, Slots) /\ \A k \in Slots : M[k] # e
      BY <1>m, OnceMoved
    <2> HIDE DEF M
    <2>3. Once([M EXCEPT ![x] = e], Slots)
      BY <2>1, <2>2, OnceStored
    <2> QED
      BY <1>m, <1>n, <2>3 DEF M
  <1>1. ASSUME NEW e \in Elements, PushBack(e) PROVE NoElementTwice'
    BY <1>1, <1>a DEF PushBack
  <1>2. ASSUME NEW e \in Elements, NEW pos \in 0..Size, Insert(pos, e) PROVE NoElementTwice'
    <2>1. CASE Adjusted(pos) = m_write_index
      BY <1>2, <1>a, <2>1 DEF Insert
    <2>2. CASE Adjusted(pos) # m_write_index
      <3>1. Run(pos, Size - pos, 1)
        BY <1>0 DEF Run
      <3>2. /\ m_buffer' = [Moved(pos, Size - pos, 1) EXCEPT ![Adjusted(pos)] = e]
            /\ Fresh(e) /\ m_capacity' = m_capacity
        BY <1>2, <2>2 DEF Insert, IncrementIndices
      <3> QED
        BY <1>m, <3>1, <3>2
    <2> QED
      BY <2>1, <2>2
  <1>3. ASSUME NEW e \in Elements, NEW pos \in 0..Size, InsertFull(pos, e) PROVE NoElementTwice'
    <2>1. CASE Adjusted(pos) = m_write_index
      BY <1>3, <1>a, <2>1 DEF InsertFull
    <2>2. CASE Adjusted(pos) # m_write_index
      <3>1. Run(pos, Size - pos - 1, 2)
        BY <1>0 DEF Run
      <3>2. /\ m_buffer' = [Moved(pos, Size - pos - 1, 2) EXCEPT ![Adjusted(pos) + 1] = e]
            /\ Fresh(e) /\ m_capacity' = m_capacity
        BY <1>3, <2>2 DEF InsertFull, IncrementIndices
      <3> QED
        BY <1>m, <3>1, <3>2
    <2> QED
      BY <2>1, <2>2
  <1>4. ASSUME NEW e \in Elements, NEW pos \in 0..Size, Emplace(pos, e) PROVE NoElementTwice'
    <2> DEFINE index == Adjusted(pos)
               old == [k \in Slots |-> IF k = m_write_index /\ IsConstructed(index)
                                          THEN Raw ELSE m_buffer[k]]
    <2>1. /\ m_buffer' = [k \in Slots |-> IF k = index THEN e ELSE old[k]]
          /\ Fresh(e) /\ m_capacity' = m_capacity
      BY <1>4 DEF Emplace
    <2>2. old \in [Slots -> Elements \cup {Raw}]
      BY <1>b
    <2>3. \A k \in Slots : old[k] = m_buffer[k] \/ old[k] = Raw
      OBVIOUS
    <2> HIDE DEF old
    <2>4. Once(old, Slots)
      BY <1>o, <2>3, OnceEmptied
    <2>5. \A k \in Slots : old[k] # e
      BY <2>1, <2>3, RingAssumption DEF Fresh
    <2>6. m_buffer' = [old EXCEPT ![index] = e]
      BY <2>1, <2>2
    <2> QED
      BY <1>n, <2>1, <2>2, <2>4, <2>5, <2>6, OnceStored
  <1>5. CASE PopBack
    <2>1. m_capacity' = m_capacity
          /\ (m_buffer' = m_buffer \/ m_buffer' = [m_buffer EXCEPT ![DecrementedWrite] = Raw])
      BY <1>5 DEF PopBack
    <2> QED
      BY <1>b, <1>e, <2>1
  <1>6. CASE PopFront
    <2>1. m_capacity' = m_capacity
          /\ (m_buffer' = m_buffer \/ m_buffer' = [m_buffer EXCEPT ![m_start_index] = Raw])
      BY <1>6 DEF PopFront
    <2> QED
      BY <1>b, <1>e, <2>1
  <1>7. ASSUME NEW pos \in 0..Size, Erase(pos) PROVE NoElementTwice'
    <2>1. Run(pos + 1, (Size - 1) - pos, -1)
      BY <1>0 DEF Run
    <2>2. m_capacity' = m_capacity
          /\ (m_buffer' = m_buffer \/ m_buffer' = Moved(pos + 1, (Size - 1) - pos, -1))
      BY <1>7 DEF Erase
    <2> QED
      BY <1>n, <1>o, <2>1, <2>2, OnceMoved
  <1>8. ASSUME NEW first \in 0..Size, NEW last \in 0..Size, EraseRange(first, last)
        PROVE  NoElementTwice'
    <2>1. Run(last, Size - last, first - last)
      BY <1>0 DEF Run
    <2>2. m_capacity' = m_capacity
          /\ (m_buffer' = m_buffer \/ m_buffer' = Moved(last, Size - last, first - last))
      BY <1>8 DEF EraseRange
    <2> QED
      BY <1>n, <1>o, <2>1, <2>2, OnceMoved
  <1>9. CASE Clear
    <2>1. m_capacity' = m_capacity /\ m_buffer' = Emptied
      BY <1>9 DEF Clear
    <2> QED
      BY <1>e, <2>1 DEF Emptied
  <1>10. CASE MoveAssign \/ UNCHANGED vars
    BY <1>10, <1>n, <1>o DEF MoveAssign, vars
  <1>11. CASE Destroy
    <2>1. m_capacity' = m_capacity
          /\ m_buffer' = [k \in Slots |-> IF IndexOf(k) < Size /\ IsConstructed(k)
                                             THEN Raw ELSE m_buffer[k]]
      BY <1>11 DEF Destroy
    <2> QED
      BY <1>e, <2>1
  <1>12. ASSUME NEW c \in NewCapacities, Reserve(c) PROVE NoElementTwice'
    <2>1. /\ m_capacity' = c + 1 /\ c \in Nat
          /\ m_buffer' = [k \in 0..c |-> IF k < Size THEN Contents[k + 1] ELSE Raw]
      BY <1>12, RingAssumption DEF Reserve
    <2>2. Slots' = 0..c
      BY <2>1 DEF Slots
    <2>3. ASSUME NEW k \in 0..c, k < Size
          PROVE  k \in 0..(m_capacity - 1) /\ m_buffer'[k] = m_buffer[Adjusted(k)]
      <3>1. k + 1 \in 1..Size /\ k \in 0..(m_capacity - 1) /\ (k + 1) - 1 = k
        BY <1>0, <2>1, <2>3
      <3>2. Contents[k + 1] = m_buffer[Adjusted(k)]
        BY <3>1 DEF Contents
      <3> QED
        BY <2>1, <2>3, <3>1, <3>2
    <2>4. \A k \in 0..c : ~ (k < Size) => m_buffer'[k] = Raw
      BY <2>1
    <2>5. ASSUME NEW j \in 0..c, NEW k \in 0..c, j # k, m_buffer'[j] = m_buffer'[k]
          PROVE  m_buffer'[j] = Raw
      <3>1. CASE j < Size /\ k < Size
        <4>1. /\ j \in 0..(m_capacity - 1) /\ k \in 0..(m_capacity - 1)
              /\ m_buffer'[j] = m_buffer[Adjusted(j)] /\ m_buffer'[k] = m_buffer[Adjusted(k)]
          BY <2>3, <3>1
        <4>2. Adjusted(j) # Adjusted(k) /\ Adjusted(j) \in Slots /\ Adjusted(k) \in Slots
          BY <1>0, <2>5, <4>1
        <4> QED
          BY <2>5, <4>1, <4>2 DEF NoElementTwice
      <3> QED
        BY <2>4, <2>5, <3>1
    <2> QED
      BY <2>2, <2>5 DEF NoElementTwice
  <1>13. CASE Iterate
    <2>1. UNCHANGED <<m_buffer, m_capacity>>
      BY <1>13 DEF Iterate, Begin, End, Increment, Decrement, Advance, Retreat, PointAt
    <2> QED
      BY <1>n, <1>o, <2>1
  <1> QED
    BY <1>1, <1>2, <1>3, <1>4, <1>5, <1>6, <1>7, <1>8, <1>9, <1>10, <1>11, <1>12, <1>13
    DEF Next, Over

(* Whatever is called, and even where flags and slots disagree, no element is in
   two slots: the moves of insert and erase and the copy of reserve take each
   object from one slot to one other. *)
THEOREM RingMovesOnce == Spec => []NoElementTwice
  <1>1. Init => NoElementTwice
    <2> SUFFICES ASSUME Init, NEW j \in Slots, NEW k \in Slots, j # k, m_buffer[j] = m_buffer[k]
                 PROVE  m_buffer[j] = Raw
      BY DEF NoElementTwice
    <2>1. m_capacity = InitialCapacity + 1 /\ Slots = 0..InitialCapacity
      BY RingAssumption DEF Init, InitEmpty, InitList, InitRest, Slots
    <2>2. CASE InitEmpty
      BY <2>1, <2>2 DEF InitEmpty
    <2>3. CASE InitList
      <3>1. PICK values \in [0..(InitialCapacity - 1) -> Elements] :
               /\ \A x, y \in DOMAIN values : x # y => values[x] # values[y]
               /\ m_buffer = [x \in 0..InitialCapacity |->
                                 IF x < InitialCapacity THEN values[x] ELSE Raw]
        BY <2>3 DEF InitList
      <3>2. \A x \in 0..InitialCapacity :
               /\ x < InitialCapacity => x \in DOMAIN values /\ m_buffer[x] = values[x]
               /\ ~ (x < InitialCapacity) => m_buffer[x] = Raw
        BY <3>1, RingAssumption
      <3> QED
        BY <2>1, <3>1, <3>2
    <2> QED
      BY <2>2, <2>3 DEF Init
  <1> QED
    BY <1>1, OnceStep, RingTypeInit, RingTypeStep, PTL DEF Spec
----------------------------------------------------------------------------
(* Iterators *)

(* Slot w of a ring is the one at its distance from the start. *)
LEMMA SlotAtDistance ==
    ASSUME NEW c \in Nat \ {0}, NEW s \in 0..(c - 1), NEW w \in 0..(c - 1)
    PROVE  /\ w >= s => (s + (w - s)) % c = w
           /\ w < s => (s + (c - (s - w))) % c = w
  <1>1. ASSUME w >= s PROVE (s + (w - s)) % c = w
    <2>1. w - s \in 0..(c - 1) /\ s + (w - s) = w /\ w < c
      BY <1>1
    <2> QED
      BY <2>1, TurnForward
  <1>2. ASSUME w < s PROVE (s + (c - (s - w))) % c = w
    <2> DEFINE i == c - (s - w)
    <2>1. i \in 0..(c - 1) /\ s + i >= c /\ s + i - c = w
      BY <1>2
    <2> HIDE DEF i
    <2>2. (s + i) % c = w
      BY <2>1, TurnForward
    <2> QED
      BY <2>2 DEF i
  <1> QED
    BY <1>1, <1>2

(* The step that moves the iterator leaves it at the slot of its index. *)
LEMMA IteratorStep ==
    ASSUME TypeOK, Next, iterator' # iterator, m_capacity' = m_capacity
    PROVE  Synced'
  <1>0. /\ m_capacity \in Nat \ {0} /\ Slots = 0..(m_capacity - 1)
        /\ m_start_index \in 0..(m_capacity - 1) /\ m_write_index \in 0..(m_capacity - 1)
        /\ Size \in 0..(m_capacity - 1) /\ Adjusted(Size) = m_write_index
        /\ it_index \in Nat
    BY RingFacts DEF TypeOK
  <1>s. Adjusted(0) = m_start_index
    <2>1. 0 \in 0..(m_capacity - 1) /\ m_start_index + 0 = m_start_index
          /\ m_start_index < m_capacity
      BY <1>0
    <2>2. (m_start_index + 0) % m_capacity = m_start_index + 0
      BY <1>0, <2>1, TurnForward
    <2> QED
      BY <2>1, <2>2 DEF Adjusted
  <1>a. ASSUME UNCHANGED m_start_index, it_slot' = Adjusted(it_index') PROVE Synced'
    BY <1>a DEF Synced, Adjusted
  <1>1. ASSUME Iterate PROVE Synced'
    <2>1. UNCHANGED <<m_start_index, m_write_index>>
      BY <1>1 DEF Iterate, Begin, End, Increment, Decrement, Advance, Retreat, PointAt, indices
    <2>2. Size' = Size
      BY <2>1 DEF Size
    (* At index Capacity the iterator is put at end(): right when the buffer is full. *)
    <2>3. ASSUME it_index' = Capacity, it_slot' = m_write_index PROVE Synced'
      <3>1. it_index' <= Size' => it_index' = Size
        BY <1>0, <2>2, <2>3 DEF Capacity
      <3> QED
        BY <1>0, <1>a, <2>1, <2>3, <3>1 DEF Synced
    <2>4. \/ it_index' = Capacity /\ it_slot' = m_write_index
          \/ it_slot' = Adjusted(it_index')
      <3>1. CASE Begin \/ End
        BY <1>0, <1>s, <3>1 DEF Begin, End, PointAt
      <3>2. CASE Increment \/ Decrement
        BY <3>2 DEF Increment, Decrement, PointAt
      <3>3. ASSUME NEW n \in Slots, Advance(n) \/ Retreat(n)
            PROVE  \/ it_index' = Capacity /\ it_slot' = m_write_index
                   \/ it_slot' = Adjusted(it_index')
        BY <1>s, <3>3 DEF Advance, Retreat, PointAt
      <3> QED
        BY <1>1, <3>1, <3>2, <3>3 DEF Iterate
    <2> QED
      BY <1>a, <2>1, <2>3, <2>4
  <1>2. ASSUME NEW pos \in 0..Size, Erase(pos) PROVE Synced'
    <2>1. UNCHANGED m_start_index /\ it_slot' = Adjusted(it_index')
      BY <1>0, <1>2 DEF Erase
    <2> QED
      BY <1>a, <2>1
  <1>3. ASSUME NEW first \in 0..Size, NEW last \in 0..Size, EraseRange(first, last) PROVE Synced'
    <2>0. UNCHANGED m_start_index
      BY <1>3 DEF EraseRange
    <2>1. CASE Adjusted(last) > m_write_index
      <3> DEFINE w == CutBack(last - first)
      <3>1. /\ m_write_index' = w /\ it_slot' = w
            /\ w >= m_start_index => it_index' = w - m_start_index
            /\ ~ (w >= m_start_index) => it_index' = m_capacity - (m_start_index - w)
        BY <1>3, <2>1 DEF EraseRange
      <3>2. w \in 0..(m_capacity - 1)
        <4>1. TypeOK'
          BY RingTypeStep
        <4>2. m_write_index' \in 0..(m_capacity - 1)
          BY <4>1 DEF TypeOK, Slots
        <4> QED
          BY <3>1, <4>2
      <3> HIDE DEF w
      <3>3. CASE w >= m_start_index
        <4>1. it_index' = w - m_start_index /\ (m_start_index + (w - m_start_index)) % m_capacity = w
          BY <1>0, <3>1, <3>2, <3>3, SlotAtDistance
        <4> QED
          BY <1>a, <2>0, <3>1, <4>1 DEF Adjusted
      <3>4. CASE w < m_start_index
        <4>1. /\ it_index' = m_capacity - (m_start_index - w)
              /\ (m_start_index + (m_capacity - (m_start_index - w))) % m_capacity = w
          BY <1>0, <3>1, <3>2, <3>4, SlotAtDistance
        <4> QED
          BY <1>a, <2>0, <3>1, <4>1 DEF Adjusted
      <3> QED
        BY <1>0, <3>2, <3>3, <3>4
    <2>2. CASE ~ (Adjusted(last) > m_write_index)
      <3>1. it_slot' = Adjusted(it_index')
        BY <1>3, <2>2 DEF EraseRange
      <3> QED
        BY <1>a, <2>0, <3>1
    <2> QED
      BY <2>1, <2>2
  <1>4. ASSUME NEW e \in Elements, PushBack(e) PROVE iterator' = iterator
    BY <1>4 DEF PushBack, Append_, iterator
  <1>5. ASSUME NEW e \in Elements, NEW pos \in 0..Size,
               Insert(pos, e) \/ InsertFull(pos, e) \/ Emplace(pos, e)
        PROVE  iterator' = iterator
    BY <1>5 DEF Insert, InsertFull, Emplace, Append_, iterator
  <1>6. ASSUME PopBack \/ PopFront \/ Clear \/ MoveAssign \/ Destroy \/ Over
        PROVE  iterator' = iterator
    BY <1>6 DEF PopBack, PopFront, Clear, MoveAssign, Destroy, Over, vars, iterator
  <1>7. ASSUME NEW n \in NewCapacities, Reserve(n) PROVE FALSE
    <2>1. m_capacity' = n + 1 /\ n > m_capacity /\ n \in Nat
      BY <1>7, RingAssumption DEF Reserve
    <2> QED
      BY <1>0, <2>1
  <1> QED
    BY <1>1, <1>2, <1>3, <1>4, <1>5, <1>6, <1>7 DEF Next

(* Every call that moves an Iterator (its own operators, and the erase functions
   that return one) leaves it at the slot of its index, wherever the ring has
   turned to and whatever was called before. *)
THEOREM RingIteratorInStep == Spec => IteratorPointsAtItsIndex
  <1>1. TypeOK /\ [Next]_vars
            => [iterator' # iterator /\ m_capacity' = m_capacity => Synced']_vars
    BY IteratorStep
  <1> QED
    BY <1>1, RingTypeInit, RingTypeStep, PTL DEF Spec, IteratorPointsAtItsIndex
----------------------------------------------------------------------------
(* How the indices turn *)

(* The number of elements between the start s and the write index w. *)
Dist(w, s, c) == IF w >= s THEN w - s ELSE c - (s - w)

LEMMA DistIs ==
    ASSUME NEW c \in Nat \ {0}, NEW s \in 0..(c - 1), NEW w \in 0..(c - 1)
    PROVE  /\ w >= s => Dist(w, s, c) = w - s
           /\ w < s => Dist(w, s, c) = w - s + c
           /\ Dist(w, s, c) \in 0..(c - 1)
  BY DEF Dist

(* Appending to a ring that is not full: one element more. *)
LEMMA WriteOn ==
    ASSUME NEW c \in Nat \ {0}, NEW s \in 0..(c - 1), NEW w \in 0..(c - 1),
           Dist(w, s, c) < c - 1
    PROVE  (w + 1) % c # s /\ Dist((w + 1) % c, s, c) = Dist(w, s, c) + 1
  <1> DEFINE v == (w + 1) % c
  <1>1. (w + 1 < c => v = w + 1) /\ (w + 1 >= c => w = c - 1 /\ v = 0)
    BY NextSlot
  <1> HIDE DEF v
  <1>2. v \in 0..(c - 1)
    BY <1>1
  <1>3. /\ w >= s => Dist(w, s, c) = w - s
        /\ w < s => Dist(w, s, c) = w - s + c
        /\ v >= s => Dist(v, s, c) = v - s
        /\ v < s => Dist(v, s, c) = v - s + c
    BY <1>2, DistIs
  <1> DEFINE d == Dist(w, s, c)
             f == Dist(v, s, c)
  <1>4. d < c - 1
    OBVIOUS
  <1>5. /\ w >= s => d = w - s
        /\ w < s => d = w - s + c
        /\ v >= s => f = v - s
        /\ v < s => f = v - s + c
    BY <1>3
  <1> HIDE DEF d, f
  <1>6. v # s /\ f = d + 1
    BY <1>1, <1>2, <1>4, <1>5
  <1> QED
    BY <1>6 DEF v, d, f

(* Appending to a full ring: the start gives way. *)
LEMMA WriteOver ==
    ASSUME NEW c \in Nat \ {0}, NEW s \in 0..(c - 1), NEW w \in 0..(c - 1), c > 1,
           Dist(w, s, c) = c - 1
    PROVE  (w + 1) % c = s /\ Dist((w + 1) % c, (s + 1) % c, c) = c - 1
  <1> DEFINE v == (w + 1) % c
             t == (s + 1) % c
  <1>1. /\ (w + 1 < c => v = w + 1) /\ (w + 1 >= c => w = c - 1 /\ v = 0)
        /\ (s + 1 < c => t = s + 1) /\ (s + 1 >= c => s = c - 1 /\ t = 0)
    BY NextSlot
  <1> HIDE DEF v, t
  <1>2. v \in 0..(c - 1) /\ t \in 0..(c - 1)
    BY <1>1
  <1>3. (w >= s => w - s = c - 1) /\ (w < s => w - s + c = c - 1)
    BY DistIs
  <1>4. v = s
    BY <1>1, <1>2, <1>3
  <1>5. /\ v >= t => Dist(v, t, c) = v - t
        /\ v < t => Dist(v, t, c) = v - t + c
    BY <1>2, DistIs
  <1>6. Dist(v, t, c) = c - 1
    BY <1>1, <1>2, <1>4, <1>5
  <1> QED
    BY <1>4, <1>6 DEF v, t

(* Taking the first element. *)
LEMMA StartOn ==
    ASSUME NEW c \in Nat \ {0}, NEW s \in 0..(c - 1), NEW w \in 0..(c - 1),
           Dist(w, s, c) > 0
    PROVE  Dist(w, (s + 1) % c, c) = Dist(w, s, c) - 1
  <1> DEFINE t == (s + 1) % c
  <1>1. (s + 1 < c => t = s + 1) /\ (s + 1 >= c => s = c - 1 /\ t = 0)
    BY NextSlot
  <1> HIDE DEF t
  <1>2. t \in 0..(c - 1)
    BY <1>1
  <1> DEFINE d == Dist(w, s, c)
             f == Dist(w, t, c)
  <1>3. d > 0
    OBVIOUS
  <1>4. /\ w >= s => d = w - s
        /\ w < s => d = w - s + c
        /\ w >= t => f = w - t
        /\ w < t => f = w - t + c
    BY <1>2, DistIs
  <1> HIDE DEF d, f
  <1>5. f = d - 1
    BY <1>1, <1>2, <1>3, <1>4
  <1> QED
    BY <1>5 DEF t, d, f

(* The slot with index i. *)
Nth(s, i, c) == (s + i) % c

(* Taking the last element. *)
LEMMA WriteBack ==
    ASSUME NEW c \in Nat \ {0}, NEW s \in 0..(c - 1), NEW w \in 0..(c - 1),
           Dist(w, s, c) > 0, NEW v, v = IF w = 0 THEN c - 1 ELSE w - 1
    PROVE  /\ v \in 0..(c - 1) /\ Dist(v, s, c) = Dist(w, s, c) - 1
           /\ Nth(s, Dist(w, s, c) - 1, c) = v
  <1> DEFINE d == Dist(w, s, c)
             f == Dist(v, s, c)
  <1>1. v \in 0..(c - 1) /\ (w = 0 => v = c - 1) /\ (w # 0 => v = w - 1)
    OBVIOUS
  <1>2. d > 0
    OBVIOUS
  <1>3. /\ w >= s => d = w - s
        /\ w < s => d = w - s + c
        /\ v >= s => f = v - s
        /\ v < s => f = v - s + c
        /\ d \in 0..(c - 1)
    BY <1>1, DistIs
  <1> HIDE DEF d, f
  <1>4. f = d - 1
    BY <1>1, <1>2, <1>3
  <1>5. d - 1 \in 0..(c - 1)
    BY <1>2, <1>3
  <1>6. /\ s + (d - 1) < c => (s + (d - 1)) % c = s + (d - 1)
        /\ s + (d - 1) >= c => (s + (d - 1)) % c = s + (d - 1) - c
    BY <1>5, TurnForward
  <1>7. (s + (d - 1)) % c = v
    BY <1>1, <1>2, <1>3, <1>6
  <1> QED
    BY <1>1, <1>4, <1>7 DEF d, f, Nth

(* When the start moves on, index i names the slot that i + 1 named. *)
LEMMA StartShifts ==
    ASSUME NEW c \in Nat \ {0}, NEW s \in 0..(c - 1), NEW i \in 0..(c - 1)
    PROVE  /\ i < c - 1 => (((s + 1) % c) + i) % c = (s + (i + 1)) % c
           /\ i = c - 1 => (((s + 1) % c) + i) % c = s
  <1> DEFINE t == (s + 1) % c
             x == (t + i) % c
  <1>1. (s + 1 < c => t = s + 1) /\ (s + 1 >= c => s = c - 1 /\ t = 0)
    BY NextSlot
  <1>2. t \in 0..(c - 1)
    BY <1>1, NextSlot
  <1>3. (t + i < c => x = t + i) /\ (t + i >= c => x = t + i - c)
    BY <1>2, TurnForward
  <1> HIDE DEF t, x
  <1>4. ASSUME i < c - 1 PROVE x = (s + (i + 1)) % c
    <2> DEFINE y == (s + (i + 1)) % c
    <2>0. i + 1 \in 0..(c - 1)
      BY <1>4
    <2>1. (s + (i + 1) < c => y = s + (i + 1)) /\ (s + (i + 1) >= c => y = s + (i + 1) - c)
      BY <2>0, TurnForward
    <2> HIDE DEF y
    <2>2. x = y
      BY <1>1, <1>2, <1>3, <1>4, <2>1
    <2> QED
      BY <2>2 DEF y
  <1>5. ASSUME i = c - 1 PROVE x = s
    BY <1>1, <1>2, <1>3, <1>5
  <1> QED
    BY <1>4, <1>5 DEF t, x
----------------------------------------------------------------------------
(* The sound calls *)

OnlySoundCalls == Calls \subseteq SoundCalls

(* What is at index i. *)
At(i) == m_buffer[Adjusted(i)]

(* Every flag tells the truth. *)
Truthful ==
    /\ DOMAIN m_constructed = Slots
    /\ \A k \in Slots : m_constructed[k] <=> m_buffer[k] # Raw

(* Every index of the buffer has an object: what FlagsTruthful needs to be
   inductive.  The slots outside may have one too, which the next append to
   that slot destroys. *)
InUse == \A i \in 0..(Size - 1) : At(i) # Raw

Sound ==
    /\ TypeOK /\ undefined = FALSE /\ m_capacity = InitialCapacity + 1
    /\ destroyed = FALSE => Truthful /\ InUse

LEMMA SoundFacts ==
    ASSUME Sound, destroyed = FALSE
    PROVE  /\ TypeOK /\ undefined = FALSE /\ Truthful /\ InUse
           /\ InitialCapacity \in Nat \ {0} /\ m_capacity = InitialCapacity + 1
           /\ m_capacity \in Nat \ {0} /\ m_capacity > 1 /\ Capacity = InitialCapacity
           /\ Slots = 0..(m_capacity - 1)
           /\ m_start_index \in 0..(m_capacity - 1) /\ m_write_index \in 0..(m_capacity - 1)
           /\ Size \in 0..(m_capacity - 1) /\ Adjusted(Size) = m_write_index
           /\ Size = Dist(m_write_index, m_start_index, m_capacity)
           /\ \A i \in 0..(m_capacity - 1) : Adjusted(i) \in Slots /\ IndexOf(Adjusted(i)) = i
           /\ \A k \in Slots : IndexOf(k) \in 0..(m_capacity - 1) /\ Adjusted(IndexOf(k)) = k
           /\ m_buffer \in [Slots -> Elements \cup {Raw}]
           /\ m_constructed \in [Slots -> BOOLEAN]
  <1>1. TypeOK /\ undefined = FALSE /\ Truthful /\ InUse /\ m_capacity = InitialCapacity + 1
    BY DEF Sound
  <1>2. /\ InitialCapacity \in Nat \ {0} /\ m_capacity > 1 /\ Capacity = InitialCapacity
    BY <1>1, RingAssumption DEF Capacity
  <1>3. Size = Dist(m_write_index, m_start_index, m_capacity)
    BY DEF Size, Dist
  <1>4. /\ m_buffer \in [Slots -> Elements \cup {Raw}] /\ m_constructed \in [Slots -> BOOLEAN]
    BY <1>1 DEF TypeOK, Truthful
  <1> QED
    BY <1>1, <1>2, <1>3, <1>4, RingFacts

(* What the moves do, by index: all of the run is moved. *)
MovesRun(first, n, by) ==
    \A i \in 0..(m_capacity - 1) : \A j : j = i - by =>
        /\ InRun(j, first, n) => Moved(first, n, by)[Adjusted(i)] = At(j)
        /\ ~ InRun(j, first, n) /\ ~ InRun(i, first, n)
              => Moved(first, n, by)[Adjusted(i)] = At(i)

LEMMA MovedAt ==
    ASSUME Sound, destroyed = FALSE, NEW first, NEW n, NEW by, Run(first, n, by)
    PROVE  MovesRun(first, n, by)
  <1> SUFFICES ASSUME NEW i \in 0..(m_capacity - 1), NEW j, j = i - by
               PROVE  /\ InRun(j, first, n) => Moved(first, n, by)[Adjusted(i)] = At(j)
                      /\ ~ InRun(j, first, n) /\ ~ InRun(i, first, n)
                            => Moved(first, n, by)[Adjusted(i)] = At(i)
    BY DEF MovesRun
  <1>1. TypeOK /\ Truthful /\ InUse /\ Adjusted(i) \in Slots /\ IndexOf(Adjusted(i)) = i
        /\ m_constructed \in [Slots -> BOOLEAN]
    BY SoundFacts
  <1>2. ASSUME InRun(j, first, n) PROVE Moved(first, n, by)[Adjusted(i)] = At(j)
    <2>1. j \in 0..(Size - 1) /\ Adjusted(j) \in Slots
      BY <1>1, <1>2, SourceInSlots
    <2>2. m_buffer[Adjusted(j)] # Raw
      BY <1>1, <2>1 DEF InUse, At
    <2>3. IsConstructed(Adjusted(j))
      BY <1>1, <2>1, <2>2 DEF IsConstructed, Truthful
    <2> QED
      BY <1>1, <1>2, <2>3 DEF Moved, At
  <1>3. ASSUME ~ InRun(j, first, n), ~ InRun(i, first, n)
        PROVE  Moved(first, n, by)[Adjusted(i)] = At(i)
    BY <1>1, <1>3 DEF Moved, At
  <1> QED
    BY <1>2, <1>3

(* The moves keep the flags true, and none of them is undefined. *)
LEMMA MovedTruthful ==
    ASSUME Sound, destroyed = FALSE, NEW first, NEW n, NEW by, Run(first, n, by)
    PROVE  /\ Moved(first, n, by) \in [Slots -> Elements \cup {Raw}]
           /\ MovedFlags(first, n, by) \in [Slots -> BOOLEAN]
           /\ \A k \in Slots : MovedFlags(first, n, by)[k] <=> Moved(first, n, by)[k] # Raw
           /\ (\A i \in first..(first + n - 1) : i + by \in 0..(m_capacity - 1))
                 => ~ MoveUndefined(first, n, by)
  <1>0. TypeOK /\ Truthful /\ DOMAIN m_constructed = Slots /\ m_constructed \in [Slots -> BOOLEAN]
    BY SoundFacts DEF Truthful
  <1>1. /\ Moved(first, n, by) \in [Slots -> Elements \cup {Raw}]
        /\ MovedFlags(first, n, by) \in [Slots -> BOOLEAN]
    BY <1>0, MovedType
  <1>2. ASSUME NEW k \in Slots
        PROVE  MovedFlags(first, n, by)[k] <=> Moved(first, n, by)[k] # Raw
    <2> DEFINE from == Adjusted(IndexOf(k) - by)
    <2>1. CASE InRun(IndexOf(k) - by, first, n) /\ IsConstructed(from)
      <3>1. from \in Slots
        BY <1>0, <2>1, SourceInSlots
      <3>2. m_buffer[from] # Raw
        BY <1>0, <2>1, <3>1 DEF IsConstructed, Truthful
      <3> QED
        BY <1>0, <2>1, <3>2 DEF Moved, MovedFlags
    <2>2. CASE ~ (InRun(IndexOf(k) - by, first, n) /\ IsConstructed(from))
      <3>1. CASE InRun(IndexOf(k), first, n) /\ IsConstructed(k)
        BY <1>0, <2>2, <3>1 DEF Moved, MovedFlags
      <3>2. CASE InRun(IndexOf(k), first, n) /\ ~ IsConstructed(k)
        <4>1. m_buffer[k] = Raw
          BY <1>0, <3>2 DEF IsConstructed, Truthful
        <4> QED
          BY <1>0, <2>2, <3>2, <4>1 DEF Moved, MovedFlags
      <3>3. CASE ~ InRun(IndexOf(k), first, n)
        <4>1. MovedFlags(first, n, by)[k] = m_constructed[k] /\ Moved(first, n, by)[k] = m_buffer[k]
          BY <1>0, <2>2, <3>3 DEF Moved, MovedFlags
        <4> QED
          BY <1>0, <4>1 DEF Truthful
      <3> QED
        BY <3>1, <3>2, <3>3
    <2> QED
      BY <2>1, <2>2
  <1>3. ASSUME \A i \in first..(first + n - 1) : i + by \in 0..(m_capacity - 1)
        PROVE  ~ MoveUndefined(first, n, by)
    <2> SUFFICES ASSUME NEW i \in first..(first + n - 1),
                        \/ NoFlag(Adjusted(i)) \/ NoFlag(Adjusted(i + by)) \/ Dead(Adjusted(i))
                        \/ IsConstructed(Adjusted(i)) /\ Dead(Adjusted(i + by))
                 PROVE  FALSE
      BY DEF MoveUndefined
    <2>1. i + by \in 0..(m_capacity - 1)
      BY <1>3
    <2>2. i \in 0..(m_capacity - 1)
      BY RingFacts, <1>0 DEF Run
    <2>3. Adjusted(i) \in Slots /\ Adjusted(i + by) \in Slots
      BY <1>0, <2>1, <2>2, RingFacts
    <2> QED
      BY <1>0, <2>3 DEF NoFlag, Dead, IsConstructed, Truthful
  <1> QED
    BY <1>1, <1>2, <1>3
(* What each call does, by index: the flags stay true, nothing undefined
   happens, and the elements are those of a deque. *)

(* push_back(), emplace_back() *)
LEMMA AppendEffect ==
    ASSUME Sound, destroyed = FALSE, NEW e \in Elements, Append_(e)
    PROVE  /\ undefined' = FALSE /\ Truthful'
           /\ ~ Full => /\ Size' = Size + 1
                        /\ \A i \in 0..(Size - 1) : At(i)' = At(i)
                        /\ \A i \in 0..Size : i = Size => At(i)' = e
           /\ Full => /\ Size' = Size /\ Size > 0
                      /\ \A i \in 0..(Size - 2) : At(i)' = At(i + 1)
                      /\ \A i \in 0..Size : i = Size - 1 => At(i)' = e
  <1> DEFINE c == m_capacity
             s == m_start_index
             w == m_write_index
  <1>0. /\ TypeOK /\ Truthful /\ c \in Nat \ {0} /\ c > 1 /\ Slots = 0..(c - 1)
        /\ s \in 0..(c - 1) /\ w \in 0..(c - 1) /\ Size \in 0..(c - 1)
        /\ Adjusted(Size) = w /\ Size = Dist(w, s, c)
        /\ \A i \in 0..(c - 1) : Adjusted(i) \in Slots /\ IndexOf(Adjusted(i)) = i
        /\ m_buffer \in [Slots -> Elements \cup {Raw}] /\ m_constructed \in [Slots -> BOOLEAN]
    BY SoundFacts
  <1>n. c \in Nat /\ Size \in Nat /\ Size <= c - 1
    BY <1>0
  <1>1. /\ m_buffer' = [m_buffer EXCEPT ![w] = e]
        /\ m_constructed' = [m_constructed EXCEPT ![w] = TRUE]
        /\ undefined' = (NoFlag(w) \/ Dead(w))
        /\ m_write_index' = (w + 1) % c /\ m_capacity' = c
        /\ (w + 1) % c = s => m_start_index' = (s + 1) % c
        /\ (w + 1) % c # s => m_start_index' = s
    BY DEF Append_, SetConstructed, IncrementIndices
  <1>2. undefined' = FALSE
    BY <1>0, <1>1 DEF NoFlag, Dead, IsConstructed, Truthful
  <1>3. Slots' = Slots
    BY <1>1 DEF Slots
  <1>4. Truthful'
    <2>1. \A k \in Slots : m_constructed'[k] <=> m_buffer'[k] # Raw
      BY <1>0, <1>1, RingAssumption DEF Truthful
    <2>2. DOMAIN m_constructed' = Slots
      BY <1>0, <1>1
    <2> QED
      BY <1>3, <2>1, <2>2 DEF Truthful
  <1>5. Size' = Dist(m_write_index', m_start_index', c)
    BY <1>1 DEF Size, Dist
  <1>6. \A k \in Slots : m_buffer'[k] = IF k = w THEN e ELSE m_buffer[k]
    BY <1>0, <1>1
  <1>7. \A i \in 0..(c - 1) : i # Size => Adjusted(i) # w
    BY <1>0
  <1>8. ASSUME ~ Full
        PROVE  /\ Size' = Size + 1
               /\ \A i \in 0..(Size - 1) : At(i)' = At(i)
               /\ \A i \in 0..Size : i = Size => At(i)' = e
    <2>1. Dist(w, s, c) < c - 1
      BY <1>0, <1>8 DEF Full
    <2>2. (w + 1) % c # s /\ Dist((w + 1) % c, s, c) = Dist(w, s, c) + 1
      BY <1>0, <2>1, WriteOn
    <2>3. m_start_index' = s /\ Size' = Size + 1
      BY <1>0, <1>1, <1>5, <2>2
    <2>4. \A i : At(i)' = m_buffer'[Adjusted(i)]
      BY <1>1, <2>3 DEF At, Adjusted
    <2>6. ASSUME NEW i \in 0..(Size - 1) PROVE At(i)' = At(i)
      <3>1. i \in 0..(c - 1) /\ i # Size
        BY SMTT(30), <1>0
      <3> QED
        BY <1>0, <1>6, <1>7, <2>4, <3>1 DEF At
    <2>7. ASSUME NEW i \in 0..Size, i = Size PROVE At(i)' = e
      <3>1. Adjusted(i) = w /\ w \in Slots
        BY <1>0, <2>7
      <3> QED
        BY <1>6, <2>4, <3>1
    <2> QED
      BY <2>3, <2>6, <2>7
  <1>9. ASSUME Full
        PROVE  /\ Size' = Size /\ Size > 0
               /\ \A i \in 0..(Size - 2) : At(i)' = At(i + 1)
               /\ \A i \in 0..Size : i = Size - 1 => At(i)' = e
    <2>1. Size = c - 1 /\ Dist(w, s, c) = c - 1
      BY <1>0, <1>9 DEF Full
    <2>2. (w + 1) % c = s /\ Dist((w + 1) % c, (s + 1) % c, c) = c - 1
      BY <1>0, <2>1, WriteOver
    <2>3. m_start_index' = (s + 1) % c /\ Size' = Size /\ Size > 0
      <3>1. m_start_index' = (s + 1) % c
        BY <1>1, <2>2
      <3>2. Size' = c - 1
        BY <1>1, <1>5, <2>2, <3>1
      <3> QED
        BY <1>0, <2>1, <3>1, <3>2
    <2>4. ASSUME NEW i \in 0..(Size - 1) PROVE At(i)' = m_buffer'[Adjusted(i + 1)]
      <3>1. i \in 0..(c - 1) /\ i < c - 1
        BY <1>0, <2>1
      <3>2. (((s + 1) % c) + i) % c = (s + (i + 1)) % c
        BY <1>0, <3>1, StartShifts
      <3> QED
        BY <1>1, <2>3, <3>2 DEF At, Adjusted
    <2>5. ASSUME NEW i \in 0..(Size - 2) PROVE At(i)' = At(i + 1)
      <3>1. i \in 0..(Size - 1) /\ i + 1 \in 0..(c - 1) /\ i + 1 # Size
        <4> HIDE DEF c
        <4> QED
          BY <1>n
      <3> QED
        BY <1>0, <1>6, <1>7, <2>4, <3>1 DEF At
    <2>6. ASSUME NEW i \in 0..Size, i = Size - 1 PROVE At(i)' = e
      <3>1. i \in 0..(Size - 1) /\ i + 1 = Size
        <4>1. Size > 0
          BY <2>3
        <4> QED
          BY <1>n, <2>6, <4>1
      <3>2. Adjusted(i + 1) = w /\ w \in Slots
        BY <1>0, <3>1
      <3> QED
        BY <1>6, <2>4, <3>1, <3>2
    <2> QED
      BY <2>3, <2>5, <2>6
  <1> QED
    BY <1>2, <1>4, <1>8, <1>9
LEMMA SizeFacts ==
    ASSUME Sound, destroyed = FALSE
    PROVE  m_capacity \in Nat /\ Size \in Nat /\ Size <= m_capacity - 1
  <1>1. m_capacity \in Nat \ {0} /\ Size \in 0..(m_capacity - 1)
    BY SoundFacts
  <1> QED
    BY <1>1

(* pop_back() *)
LEMMA PopBackEffect ==
    ASSUME Sound, destroyed = FALSE, PopBack, Size > 0
    PROVE  /\ undefined' = FALSE /\ Truthful' /\ Size' = Size - 1
           /\ returned' = At(Size - 1)
           /\ \A i \in 0..(Size - 2) : At(i)' = At(i)
  <1> DEFINE c == m_capacity
             s == m_start_index
             w == m_write_index
             v == DecrementedWrite
  <1>0. /\ TypeOK /\ Truthful /\ InUse /\ c \in Nat \ {0} /\ Slots = 0..(c - 1)
        /\ s \in 0..(c - 1) /\ w \in 0..(c - 1) /\ Size = Dist(w, s, c)
        /\ \A i \in 0..(c - 1) : Adjusted(i) \in Slots /\ IndexOf(Adjusted(i)) = i
        /\ m_buffer \in [Slots -> Elements \cup {Raw}] /\ m_constructed \in [Slots -> BOOLEAN]
    BY SoundFacts
  <1>r. /\ c \in Nat \ {0} /\ s \in 0..(c - 1) /\ w \in 0..(c - 1) /\ Size = Dist(w, s, c)
    BY <1>0
  <1>n. c \in Nat /\ Size \in Nat /\ Size <= c - 1 /\ Size > 0
    BY SizeFacts
  <1>1. /\ m_buffer' = [m_buffer EXCEPT ![v] = Raw]
        /\ m_constructed' = [m_constructed EXCEPT ![v] = FALSE]
        /\ undefined' = (NoFlag(v) \/ m_buffer[Adjusted(Size - 1)] = Raw)
        /\ returned' = m_buffer[Adjusted(Size - 1)]
        /\ m_write_index' = v /\ m_start_index' = s /\ m_capacity' = c
    BY DEF PopBack, SetConstructed
  <1>2. /\ v \in 0..(c - 1) /\ Dist(v, s, c) = Dist(w, s, c) - 1
        /\ Nth(s, Dist(w, s, c) - 1, c) = v
    <2>1. v = IF w = 0 THEN c - 1 ELSE w - 1
      BY DEF DecrementedWrite
    <2>2. Dist(w, s, c) > 0
      BY <1>0, <1>n
    <2> HIDE DEF v
    <2>3. v \in 0..(c - 1) /\ Dist(v, s, c) = Dist(w, s, c) - 1
      BY <1>r, <2>1, <2>2, WriteBack
    <2>4. Nth(s, Dist(w, s, c) - 1, c) = v
      BY <1>r, <2>1, <2>2, WriteBack
    <2> QED
      BY <2>3, <2>4
  <1>3. Size' = Size - 1
    <2>1. Size' = Dist(v, s, c)
      BY <1>1 DEF Size, Dist
    <2> QED
      BY <1>0, <1>2, <2>1
  <1>4. Adjusted(Size - 1) = v
    BY <1>0, <1>2 DEF Adjusted, Nth
  <1> HIDE DEF v
  <1>5. Size - 1 \in 0..(Size - 1)
    BY <1>n
  <1>6. undefined' = FALSE
    <2>1. At(Size - 1) # Raw
      BY <1>0, <1>5 DEF InUse
    <2> QED
      BY <1>0, <1>1, <1>2, <2>1 DEF At, NoFlag
  <1>7. Truthful'
    <2>1. \A k \in Slots : m_constructed'[k] <=> m_buffer'[k] # Raw
      BY <1>0, <1>1 DEF Truthful
    <2>2. DOMAIN m_constructed' = Slots /\ Slots' = Slots
      BY <1>0, <1>1 DEF Slots
    <2> QED
      BY <2>1, <2>2 DEF Truthful
  <1>8. ASSUME NEW i \in 0..(Size - 2) PROVE At(i)' = At(i)
    <2>1. i \in 0..(c - 1) /\ Size - 1 \in 0..(c - 1) /\ i # Size - 1
      BY <1>n
    <2>2. Adjusted(i) # v /\ Adjusted(i) \in Slots
      BY <1>0, <1>4, <2>1
    <2>3. At(i)' = m_buffer'[Adjusted(i)]
      BY <1>1 DEF At, Adjusted
    <2> QED
      BY <1>0, <1>1, <2>2, <2>3 DEF At
  <1> QED
    BY <1>1, <1>3, <1>6, <1>7, <1>8 DEF At

(* pop_front() *)
LEMMA PopFrontEffect ==
    ASSUME Sound, destroyed = FALSE, PopFront, Size > 0
    PROVE  /\ undefined' = FALSE /\ Truthful' /\ Size' = Size - 1
           /\ returned' = At(0)
           /\ \A i \in 0..(Size - 2) : At(i)' = At(i + 1)
  <1> DEFINE c == m_capacity
             s == m_start_index
             w == m_write_index
  <1>0. /\ TypeOK /\ Truthful /\ InUse /\ c \in Nat \ {0} /\ Slots = 0..(c - 1)
        /\ s \in 0..(c - 1) /\ w \in 0..(c - 1) /\ Size = Dist(w, s, c)
        /\ \A i \in 0..(c - 1) : Adjusted(i) \in Slots /\ IndexOf(Adjusted(i)) = i
        /\ m_buffer \in [Slots -> Elements \cup {Raw}] /\ m_constructed \in [Slots -> BOOLEAN]
    BY SoundFacts
  <1>n. c \in Nat /\ Size \in Nat /\ Size <= c - 1 /\ Size > 0
    BY SizeFacts
  <1>1. /\ m_buffer' = [m_buffer EXCEPT ![s] = Raw]
        /\ m_constructed' = [m_constructed EXCEPT ![s] = FALSE]
        /\ undefined' = (NoFlag(s) \/ m_buffer[s] = Raw)
        /\ returned' = m_buffer[s]
        /\ m_write_index' = w /\ m_start_index' = (s + 1) % c /\ m_capacity' = c
    BY DEF PopFront, SetConstructed
  <1>2. Adjusted(0) = s
    <2>1. 0 \in 0..(c - 1) /\ s + 0 = s /\ s < c
      BY <1>0
    <2>2. (s + 0) % c = s + 0
      BY ZenonT(60), <1>0, <2>1, TurnForward
    <2> QED
      BY <2>1, <2>2 DEF Adjusted
  <1>3. Size' = Size - 1
    <2>1. Size' = Dist(w, (s + 1) % c, c)
      BY <1>1 DEF Size, Dist
    <2> QED
      BY <1>0, <1>n, <2>1, StartOn
  <1>6. undefined' = FALSE
    <2>1. At(0) # Raw
      BY <1>0, <1>n DEF InUse
    <2> QED
      BY <1>0, <1>1, <1>2, <2>1 DEF At, NoFlag
  <1>7. Truthful'
    <2>1. \A k \in Slots : m_constructed'[k] <=> m_buffer'[k] # Raw
      BY <1>0, <1>1 DEF Truthful
    <2>2. DOMAIN m_constructed' = Slots /\ Slots' = Slots
      BY <1>0, <1>1 DEF Slots
    <2> QED
      BY <2>1, <2>2 DEF Truthful
  <1>8. ASSUME NEW i \in 0..(Size - 2) PROVE At(i)' = At(i + 1)
    <2>1. i \in 0..(c - 1) /\ i < c - 1 /\ i + 1 \in 0..(c - 1) /\ i + 1 # 0 /\ 0 \in 0..(c - 1)
      BY <1>n
    <2>2. Adjusted(i + 1) # s /\ Adjusted(i + 1) \in Slots
      BY <1>0, <1>2, <2>1
    <2>3. (((s + 1) % c) + i) % c = (s + (i + 1)) % c
      BY <1>0, <2>1, StartShifts
    <2>4. At(i)' = m_buffer'[Adjusted(i + 1)]
      BY <1>1, <2>3 DEF At, Adjusted
    <2> QED
      BY <1>0, <1>1, <2>2, <2>4 DEF At
  <1> QED
    BY <1>1, <1>2, <1>3, <1>6, <1>7, <1>8 DEF At

(* insert() and insert_emplace() before an element of a buffer that is not full *)
LEMMA InsertEffect ==
    ASSUME Sound, destroyed = FALSE, NEW e \in Elements, NEW pos \in 0..Size, Insert(pos, e),
           Adjusted(pos) # m_write_index
    PROVE  /\ undefined' = FALSE /\ Truthful' /\ Size' = Size + 1 /\ pos < Size
           /\ \A i \in 0..Size : /\ i < pos => At(i)' = At(i)
                                 /\ i = pos => At(i)' = e
                                 /\ i > pos => At(i)' = At(i - 1)
  <1> DEFINE c == m_capacity
             s == m_start_index
             w == m_write_index
             n == Size - pos
             M == Moved(pos, n, 1)
             F == MovedFlags(pos, n, 1)
             index == Adjusted(pos)
  <1>0. /\ c \in Nat \ {0} /\ Slots = 0..(c - 1) /\ Slots = 0..Capacity
        /\ s \in 0..(c - 1) /\ w \in 0..(c - 1) /\ Size = Dist(w, s, c) /\ Adjusted(Size) = w
        /\ \A i \in 0..(c - 1) : Adjusted(i) \in Slots /\ IndexOf(Adjusted(i)) = i
    BY SoundFacts DEF Capacity
  <1>n. c \in Nat /\ Size \in Nat /\ Size < c - 1 /\ pos \in Nat /\ pos < Size
    <2>1. c \in Nat /\ Size \in Nat /\ Size <= c - 1
      BY SizeFacts
    <2>2. Size # c - 1
      BY DEF Insert, Full
    <2>3. pos # Size
      BY <1>0
    <2> QED
      BY <2>1, <2>2, <2>3
  <1>1. /\ m_buffer' = [M EXCEPT ![index] = e]
        /\ m_constructed' = [F EXCEPT ![index] = TRUE]
        /\ undefined' = MoveUndefined(pos, n, 1)
        /\ m_write_index' = (w + 1) % c /\ m_capacity' = c
        /\ (w + 1) % c # s => m_start_index' = s
    BY DEF Insert, IncrementIndices
  <1>2. Dist(w, s, c) < c - 1
    BY <1>0, <1>n
  <1>3. (w + 1) % c # s /\ Dist((w + 1) % c, s, c) = Dist(w, s, c) + 1
    BY <1>0, <1>2, WriteOn
  <1>4. m_start_index' = s /\ Size' = Size + 1
    <2>1. m_start_index' = s
      BY <1>1, <1>3
    <2>2. Size' = Dist((w + 1) % c, s, c)
      BY <1>1, <2>1 DEF Size, Dist
    <2> QED
      BY <1>0, <1>3, <2>1, <2>2
  <1>5. Run(pos, n, 1)
    BY <1>n DEF Run
  <1>6. /\ M \in [Slots -> Elements \cup {Raw}] /\ F \in [Slots -> BOOLEAN]
        /\ \A k \in Slots : F[k] <=> M[k] # Raw
    BY <1>5, MovedTruthful
  <1>7. undefined' = FALSE
    <2>1. \A i \in pos..(pos + n - 1) : i + 1 \in 0..(c - 1)
      BY <1>n
    <2>2. ~ MoveUndefined(pos, n, 1)
      BY <1>5, <2>1, MovedTruthful
    <2> QED
      BY <1>1, <2>2
  <1>8. index \in Slots
    BY <1>0, <1>n
  <1>m. \A i \in 0..(c - 1) : \A j : j = i - 1 =>
           /\ InRun(j, pos, n) => M[Adjusted(i)] = At(j)
           /\ ~ InRun(j, pos, n) /\ ~ InRun(i, pos, n) => M[Adjusted(i)] = At(i)
    <2>1. MovesRun(pos, n, 1)
      BY <1>5, MovedAt
    <2> QED
      BY <2>1 DEF MovesRun
  <1>9. ASSUME NEW i \in 0..Size
        PROVE  /\ i < pos => M[Adjusted(i)] = At(i)
               /\ i > pos => M[Adjusted(i)] = At(i - 1)
    <2>1. i \in 0..(c - 1) /\ i \in Nat
      BY <1>n
    <2>2. i < pos => ~ InRun(i - 1, pos, n) /\ ~ InRun(i, pos, n)
      BY <1>n, <2>1 DEF InRun
    <2>3. i > pos => InRun(i - 1, pos, n)
      BY <1>n, <2>1 DEF InRun
    <2>4. /\ InRun(i - 1, pos, n) => M[Adjusted(i)] = At(i - 1)
          /\ ~ InRun(i - 1, pos, n) /\ ~ InRun(i, pos, n) => M[Adjusted(i)] = At(i)
      <3> DEFINE j == i - 1
      <3>1. j = i - 1
        OBVIOUS
      <3> HIDE DEF n, j
      <3> HIDE DEF M
      <3>2. /\ InRun(j, pos, n) => M[Adjusted(i)] = At(j)
            /\ ~ InRun(j, pos, n) /\ ~ InRun(i, pos, n) => M[Adjusted(i)] = At(i)
        BY <1>m, <2>1, <3>1
      <3> QED
        BY <3>2 DEF j
    <2> QED
      BY <2>2, <2>3, <2>4
  <1> HIDE DEF M, F
  <1>10. Truthful'
    <2>1. \A k \in Slots : m_constructed'[k] <=> m_buffer'[k] # Raw
      BY <1>1, <1>6, <1>8, RingAssumption
    <2>2. DOMAIN m_constructed' = Slots /\ Slots' = Slots
      BY <1>1, <1>6 DEF Slots
    <2> QED
      BY <2>1, <2>2 DEF Truthful
  <1>11. ASSUME NEW i \in 0..Size
         PROVE  /\ i < pos => At(i)' = At(i)
                /\ i = pos => At(i)' = e
                /\ i > pos => At(i)' = At(i - 1)
    <2>1. At(i)' = m_buffer'[Adjusted(i)]
      BY <1>1, <1>4 DEF At, Adjusted
    <2>2. i \in 0..(c - 1) /\ pos \in 0..(c - 1)
      BY <1>n
    <2>3. Adjusted(i) \in Slots /\ (i # pos => Adjusted(i) # index)
      BY <1>0, <2>2
    <2>4. i = pos => m_buffer'[Adjusted(i)] = e
      BY <1>1, <1>6, <1>8
    <2>5. i # pos => m_buffer'[Adjusted(i)] = M[Adjusted(i)]
      BY <1>1, <1>6, <2>3
    <2>6. (i < pos => i # pos) /\ (i > pos => i # pos)
      BY <1>n
    <2> QED
      BY <1>9, <2>1, <2>4, <2>5, <2>6
  <1> QED
    BY <1>4, <1>7, <1>10, <1>11, <1>n

(* erase() of an element *)
LEMMA EraseEffect ==
    ASSUME Sound, destroyed = FALSE, NEW pos \in 0..Size, Erase(pos),
           Adjusted(pos) # m_write_index
    PROVE  /\ undefined' = FALSE /\ Truthful' /\ Size' = Size - 1 /\ pos < Size
           /\ \A i \in 0..(Size - 2) : /\ i < pos => At(i)' = At(i)
                                       /\ i >= pos => At(i)' = At(i + 1)
  <1> DEFINE c == m_capacity
             s == m_start_index
             w == m_write_index
             n == (Size - 1) - pos
             v == DecrementedWrite
             M == Moved(pos + 1, n, -1)
             F == MovedFlags(pos + 1, n, -1)
  <1>0. /\ c \in Nat \ {0} /\ Slots = 0..(c - 1)
        /\ s \in 0..(c - 1) /\ w \in 0..(c - 1) /\ Size = Dist(w, s, c) /\ Adjusted(Size) = w
    BY SoundFacts
  <1>n. c \in Nat /\ Size \in Nat /\ Size <= c - 1 /\ pos \in Nat /\ pos < Size
    <2>1. c \in Nat /\ Size \in Nat /\ Size <= c - 1
      BY SizeFacts
    <2>2. pos # Size
      BY <1>0
    <2> QED
      BY <2>1, <2>2
  <1>1. /\ m_buffer' = M /\ m_constructed' = F
        /\ undefined' = MoveUndefined(pos + 1, n, -1)
        /\ m_write_index' = v /\ m_start_index' = s /\ m_capacity' = c
    BY DEF Erase
  <1>2. Dist(v, s, c) = Dist(w, s, c) - 1
    <2>1. v = IF w = 0 THEN c - 1 ELSE w - 1
      BY DEF DecrementedWrite
    <2>2. Dist(w, s, c) > 0
      BY <1>0, <1>n
    <2> HIDE DEF v
    <2> QED
      BY <1>0, <2>1, <2>2, WriteBack
  <1>3. Size' = Size - 1
    <2>1. Size' = Dist(v, s, c)
      BY <1>1 DEF Size, Dist
    <2> QED
      BY <1>0, <1>2, <2>1
  <1> HIDE DEF v
  <1>5. Run(pos + 1, n, -1)
    BY <1>n DEF Run
  <1>6. /\ M \in [Slots -> Elements \cup {Raw}] /\ F \in [Slots -> BOOLEAN]
        /\ \A k \in Slots : F[k] <=> M[k] # Raw
    BY <1>5, MovedTruthful
  <1>7. undefined' = FALSE
    <2>1. \A i \in (pos + 1)..(pos + 1 + n - 1) : i + (-1) \in 0..(c - 1)
      BY <1>n
    <2>2. ~ MoveUndefined(pos + 1, n, -1)
      BY <1>5, <2>1, MovedTruthful
    <2> QED
      BY <1>1, <2>2
  <1>m. \A i \in 0..(c - 1) : \A j : j = i - (-1) =>
           /\ InRun(j, pos + 1, n) => M[Adjusted(i)] = At(j)
           /\ ~ InRun(j, pos + 1, n) /\ ~ InRun(i, pos + 1, n) => M[Adjusted(i)] = At(i)
    <2>1. MovesRun(pos + 1, n, -1)
      BY <1>5, MovedAt
    <2> QED
      BY <2>1 DEF MovesRun
  <1>9. ASSUME NEW i \in 0..(Size - 2)
        PROVE  /\ i < pos => M[Adjusted(i)] = At(i)
               /\ i >= pos => M[Adjusted(i)] = At(i + 1)
    <2>1. i \in 0..(c - 1) /\ i \in Nat /\ i - (-1) = i + 1
      BY <1>n
    <2>2. i < pos => ~ InRun(i - (-1), pos + 1, n) /\ ~ InRun(i, pos + 1, n)
      BY <1>n, <2>1 DEF InRun
    <2>3. i >= pos => InRun(i - (-1), pos + 1, n)
      BY <1>n, <2>1 DEF InRun
    <2>4. /\ InRun(i - (-1), pos + 1, n) => M[Adjusted(i)] = At(i - (-1))
          /\ ~ InRun(i - (-1), pos + 1, n) /\ ~ InRun(i, pos + 1, n) => M[Adjusted(i)] = At(i)
      <3> DEFINE j == i - (-1)
      <3>1. j = i - (-1)
        OBVIOUS
      <3> HIDE DEF n, j
      <3> HIDE DEF M
      <3>2. /\ InRun(j, pos + 1, n) => M[Adjusted(i)] = At(j)
            /\ ~ InRun(j, pos + 1, n) /\ ~ InRun(i, pos + 1, n) => M[Adjusted(i)] = At(i)
        BY <1>m, <2>1, <3>1
      <3> QED
        BY <3>2 DEF j
    <2> QED
      BY <2>1, <2>2, <2>3, <2>4
  <1> HIDE DEF M, F
  <1>10. Truthful'
    <2>1. \A k \in Slots : m_constructed'[k] <=> m_buffer'[k] # Raw
      BY <1>1, <1>6
    <2>2. DOMAIN m_constructed' = Slots /\ Slots' = Slots
      BY <1>1, <1>6 DEF Slots
    <2> QED
      BY <2>1, <2>2 DEF Truthful
  <1>11. ASSUME NEW i \in 0..(Size - 2)
         PROVE  /\ i < pos => At(i)' = At(i)
                /\ i >= pos => At(i)' = At(i + 1)
    <2>1. At(i)' = M[Adjusted(i)]
      BY <1>1 DEF At, Adjusted
    <2> QED
      BY <1>9, <2>1
  <1> QED
    BY <1>3, <1>7, <1>10, <1>11, <1>n
(* With the sound calls every step is one of these. *)
SoundStep ==
    \/ destroyed = FALSE /\ \E e \in Elements :
         Append_(e) \/ \E pos \in 0..Size : Insert(pos, e) /\ Adjusted(pos) # m_write_index
    \/ destroyed = FALSE /\ Size > 0 /\ (PopBack \/ PopFront)
    \/ destroyed = FALSE /\ \E pos \in 0..Size : Erase(pos) /\ Adjusted(pos) # m_write_index
    \/ destroyed = FALSE /\ Destroy
    \/ destroyed = FALSE /\ Size = 0 /\ returned' = None
         /\ UNCHANGED <<m_buffer, m_constructed, indices, undefined, destroyed>>
    \/ UNCHANGED <<m_buffer, m_constructed, indices, returned, undefined, destroyed>>

LEMMA StepIsSound ==
    ASSUME OnlySoundCalls, Sound, [Next]_vars
    PROVE  SoundStep
  <1>0. undefined = FALSE /\ Size \in Nat
    <2>1. TypeOK /\ undefined = FALSE
      BY DEF Sound
    <2>2. m_capacity \in Nat \ {0} /\ Size \in 0..(m_capacity - 1)
      BY <2>1, RingFacts
    <2> QED
      BY <2>1, <2>2
  <1>t. destroyed \in BOOLEAN
    BY DEF Sound, TypeOK
  <1>c. /\ \A name : Called(name) => destroyed = FALSE
        /\ ~ Called("insert_full") /\ ~ Called("erase_range") /\ ~ Called("emplace")
        /\ ~ Called("clear") /\ ~ Called("reserve") /\ ~ Called("move_assign")
    BY <1>t DEF Called, OnlySoundCalls, SoundCalls
  <1>1. ASSUME NEW e \in Elements, PushBack(e) PROVE SoundStep
    BY <1>1, <1>c DEF PushBack, SoundStep
  <1>2. ASSUME NEW e \in Elements, NEW pos \in 0..Size, Insert(pos, e) PROVE SoundStep
    <2>1. CASE Adjusted(pos) = m_write_index
      <3>1. Append_(e) /\ destroyed = FALSE
        BY <1>2, <1>c, <2>1 DEF Insert
      <3> QED
        BY <3>1 DEF SoundStep
    <2>2. CASE Adjusted(pos) # m_write_index
      <3>1. destroyed = FALSE
        BY <1>2, <1>c DEF Insert
      <3> QED
        BY <1>2, <2>2, <3>1 DEF SoundStep
    <2> QED
      BY <2>1, <2>2
  <1>3. ASSUME NEW e \in Elements, NEW pos \in 0..Size, InsertFull(pos, e) \/ Emplace(pos, e)
        PROVE  SoundStep
    BY <1>3, <1>c DEF InsertFull, Emplace
  <1>4. ASSUME PopBack PROVE SoundStep
    <2>1. destroyed = FALSE
      BY <1>4, <1>c DEF PopBack
    <2>2. CASE Size > 0
      BY <1>4, <2>1, <2>2 DEF SoundStep
    <2>3. CASE ~ (Size > 0)
      <3>1. Size = 0
        BY <1>0, <2>3
      <3>2. returned' = None /\ UNCHANGED <<m_buffer, m_constructed, indices, undefined, destroyed>>
        BY <1>4, <2>3 DEF PopBack, indices
      <3> QED
        BY <2>1, <3>1, <3>2 DEF SoundStep
    <2> QED
      BY <2>2, <2>3
  <1>5. ASSUME PopFront PROVE SoundStep
    <2>1. destroyed = FALSE
      BY <1>5, <1>c DEF PopFront
    <2>2. CASE Size > 0
      BY <1>5, <2>1, <2>2 DEF SoundStep
    <2>3. CASE ~ (Size > 0)
      <3>1. Size = 0
        BY <1>0, <2>3
      <3>2. returned' = None /\ UNCHANGED <<m_buffer, m_constructed, indices, undefined, destroyed>>
        BY <1>5, <2>3 DEF PopFront, indices
      <3> QED
        BY <2>1, <3>1, <3>2 DEF SoundStep
    <2> QED
      BY <2>2, <2>3
  <1>6. ASSUME NEW pos \in 0..Size, Erase(pos) PROVE SoundStep
    <2>1. destroyed = FALSE
      BY <1>6, <1>c DEF Erase
    <2>2. CASE Adjusted(pos) # m_write_index
      BY <1>6, <2>1, <2>2 DEF SoundStep
    <2>3. CASE Adjusted(pos) = m_write_index
      <3>1. UNCHANGED <<m_buffer, m_constructed, indices, returned, undefined, destroyed>>
        BY <1>6, <2>3 DEF Erase, indices
      <3> QED
        BY <3>1 DEF SoundStep
    <2> QED
      BY <2>2, <2>3
  <1>7. ASSUME Destroy PROVE SoundStep
    BY <1>7, <1>c DEF Destroy, SoundStep
  <1>8. ASSUME NEW first \in 0..Size, NEW last \in 0..Size, EraseRange(first, last)
        PROVE  SoundStep
    BY <1>8, <1>c DEF EraseRange
  <1>9. ASSUME Clear \/ MoveAssign \/ \E n \in NewCapacities : Reserve(n) PROVE SoundStep
    BY <1>9, <1>c DEF Clear, MoveAssign, Reserve
  <1>10. ASSUME Iterate \/ UNCHANGED vars PROVE SoundStep
    <2>1. UNCHANGED <<m_buffer, m_constructed, indices, returned, undefined, destroyed>>
      BY <1>10
      DEF Iterate, Begin, End, Increment, Decrement, Advance, Retreat, PointAt, vars
    <2> QED
      BY <2>1 DEF SoundStep
  <1> QED
    BY <1>1, <1>2, <1>3, <1>4, <1>5, <1>6, <1>7, <1>8, <1>9, <1>10 DEF Next, Over

LEMMA SoundInit == Init => Sound
  <1> SUFFICES ASSUME Init PROVE Sound
    OBVIOUS
  <1>1. TypeOK
    BY RingTypeInit
  <1>2. /\ m_capacity = InitialCapacity + 1 /\ undefined = FALSE /\ m_start_index = 0
        /\ Slots = 0..InitialCapacity /\ InitialCapacity \in Nat \ {0}
    BY RingAssumption DEF Init, InitEmpty, InitList, InitRest, Slots
  <1>3. Size = m_write_index /\ m_write_index \in 0..InitialCapacity
    BY <1>1, <1>2 DEF Size, TypeOK
  <1>4. ASSUME NEW i \in 0..(Size - 1) PROVE Adjusted(i) = i
    <2>1. 0 \in 0..(m_capacity - 1) /\ i \in 0..(m_capacity - 1) /\ 0 + i = i /\ i < m_capacity
          /\ m_capacity \in Nat \ {0}
      BY <1>2, <1>3
    <2>2. (0 + i) % m_capacity = 0 + i
      BY <2>1, TurnForward
    <2> QED
      BY <1>2, <2>1, <2>2 DEF Adjusted
  <1>5. CASE InitEmpty
    <2>1. /\ m_write_index = 0 /\ m_buffer = [k \in 0..InitialCapacity |-> Raw]
          /\ m_constructed = [k \in 0..InitialCapacity |-> FALSE]
      BY <1>5 DEF InitEmpty
    <2>2. Truthful
      BY <1>2, <2>1 DEF Truthful
    <2>3. InUse
      BY <1>3, <2>1 DEF InUse
    <2> QED
      BY <1>1, <1>2, <2>2, <2>3 DEF Sound
  <1>6. CASE InitList
    <2>1. PICK values \in [0..(InitialCapacity - 1) -> Elements] :
             m_buffer = [x \in 0..InitialCapacity |->
                            IF x < InitialCapacity THEN values[x] ELSE Raw]
      BY <1>6 DEF InitList
    <2>2. m_constructed = [k \in 0..InitialCapacity |-> k < InitialCapacity]
          /\ m_write_index = InitialCapacity
      BY <1>6 DEF InitList
    <2>3. \A x \in 0..InitialCapacity :
             /\ x < InitialCapacity => m_buffer[x] # Raw
             /\ ~ (x < InitialCapacity) => m_buffer[x] = Raw
      BY <1>2, <2>1, RingAssumption
    <2>4. Truthful
      BY <1>2, <2>2, <2>3 DEF Truthful
    <2>5. InUse
      <3> SUFFICES ASSUME NEW i \in 0..(Size - 1) PROVE At(i) # Raw
        BY DEF InUse
      <3>1. i \in 0..InitialCapacity /\ i < InitialCapacity
        BY <1>2, <1>3, <2>2
      <3> QED
        BY <1>4, <2>3, <3>1 DEF At
    <2> QED
      BY <1>1, <1>2, <2>4, <2>5 DEF Sound
  <1> QED
    BY <1>5, <1>6 DEF Init

(* The invariant is kept up by every sound call. *)
LEMMA SoundKept ==
    ASSUME OnlySoundCalls, Sound, [Next]_vars
    PROVE  Sound'
  <1>t. TypeOK'
    BY RingTypeStep DEF Sound
  <1>s. SoundStep
    BY StepIsSound
  <1>c. m_capacity' = m_capacity
    BY <1>s
    DEF SoundStep, Append_, Insert, IncrementIndices, PopBack, PopFront, Erase, Destroy, indices
  <1>0. undefined = FALSE /\ m_capacity = InitialCapacity + 1
    BY DEF Sound
  <1>q. ASSUME undefined' = FALSE, destroyed' = FALSE => Truthful' /\ InUse' PROVE Sound'
    BY <1>0, <1>c, <1>q, <1>t DEF Sound
  <1>n. ASSUME destroyed = FALSE PROVE m_capacity \in Nat /\ Size \in Nat /\ Size <= m_capacity - 1
    BY <1>n, SizeFacts
  <1>u. ASSUME destroyed = FALSE PROVE InUse
    BY <1>u DEF Sound
  <1>1. ASSUME destroyed = FALSE, NEW e \in Elements, Append_(e) PROVE Sound'
    <2>1. undefined' = FALSE /\ Truthful'
      BY <1>1, AppendEffect
    <2>2. ASSUME NEW i \in 0..(Size' - 1) PROVE At(i)' # Raw
      <3>0. m_capacity \in Nat /\ Size \in Nat /\ Size <= m_capacity - 1 /\ e # Raw /\ InUse
        BY <1>1, <1>n, <1>u, RingAssumption
      <3>1. CASE ~ Full
        <4>1. /\ Size' = Size + 1
              /\ \A j \in 0..(Size - 1) : At(j)' = At(j)
              /\ \A j \in 0..Size : j = Size => At(j)' = e
          BY <1>1, <3>1, AppendEffect
        <4>2. i \in 0..Size /\ (i = Size \/ i \in 0..(Size - 1))
          BY <3>0, <4>1
        <4> QED
          BY <3>0, <4>1, <4>2 DEF InUse
      <3>2. CASE Full
        <4>1. /\ Size' = Size
              /\ \A j \in 0..(Size - 2) : At(j)' = At(j + 1)
              /\ \A j \in 0..Size : j = Size - 1 => At(j)' = e
          BY <1>1, <3>2, AppendEffect
        <4>2. i \in 0..Size /\ (i = Size - 1 \/ (i \in 0..(Size - 2) /\ i + 1 \in 0..(Size - 1)))
          BY <3>0, <4>1
        <4> QED
          BY <3>0, <4>1, <4>2 DEF InUse
      <3> QED
        BY <3>1, <3>2
    <2> QED
      BY <1>q, <2>1, <2>2 DEF InUse
  <1>2. ASSUME destroyed = FALSE, NEW e \in Elements, NEW pos \in 0..Size, Insert(pos, e),
               Adjusted(pos) # m_write_index
        PROVE  Sound'
    <2>1. /\ undefined' = FALSE /\ Truthful' /\ Size' = Size + 1 /\ pos < Size
          /\ \A i \in 0..Size : /\ i < pos => At(i)' = At(i)
                                /\ i = pos => At(i)' = e
                                /\ i > pos => At(i)' = At(i - 1)
      BY <1>2, InsertEffect
    <2>2. ASSUME NEW i \in 0..(Size' - 1) PROVE At(i)' # Raw
      <3>s. Size \in Nat
        BY <1>2, <1>n
      <3>p. pos \in Nat
        BY <3>s
      <3>0. Size \in Nat /\ pos \in Nat /\ e # Raw /\ InUse
        BY <1>2, <1>u, <3>p, <3>s, RingAssumption
      <3>1. i \in 0..Size /\ i \in Nat
        BY <2>1, <3>0
      <3>2. CASE i < pos
        <4>1. i \in 0..(Size - 1)
          BY <2>1, <3>0, <3>1, <3>2
        <4> QED
          BY <2>1, <3>0, <3>1, <3>2, <4>1 DEF InUse
      <3>3. CASE i = pos
        BY <2>1, <3>0, <3>1, <3>3
      <3>4. CASE i > pos
        <4>1. i - 1 \in 0..(Size - 1)
          BY <2>1, <3>0, <3>1, <3>4
        <4> QED
          BY <2>1, <3>0, <3>1, <3>4, <4>1 DEF InUse
      <3> QED
        BY <3>0, <3>1, <3>2, <3>3, <3>4
    <2> QED
      BY <1>q, <2>1, <2>2 DEF InUse
  <1>3. ASSUME destroyed = FALSE, Size > 0, PopBack PROVE Sound'
    <2>1. /\ undefined' = FALSE /\ Truthful' /\ Size' = Size - 1
          /\ \A i \in 0..(Size - 2) : At(i)' = At(i)
      BY <1>3, PopBackEffect
    <2>2. ASSUME NEW i \in 0..(Size' - 1) PROVE At(i)' # Raw
      <3>1. Size \in Nat /\ InUse
        BY <1>3, <1>n, <1>u
      <3>2. i \in 0..(Size - 2) /\ i \in 0..(Size - 1)
        BY <2>1, <3>1
      <3> QED
        BY <2>1, <3>1, <3>2 DEF InUse
    <2> QED
      BY <1>q, <2>1, <2>2 DEF InUse
  <1>4. ASSUME destroyed = FALSE, Size > 0, PopFront PROVE Sound'
    <2>1. /\ undefined' = FALSE /\ Truthful' /\ Size' = Size - 1
          /\ \A i \in 0..(Size - 2) : At(i)' = At(i + 1)
      BY <1>4, PopFrontEffect
    <2>2. ASSUME NEW i \in 0..(Size' - 1) PROVE At(i)' # Raw
      <3>1. Size \in Nat /\ InUse
        BY <1>4, <1>n, <1>u
      <3>2. i \in 0..(Size - 2) /\ i + 1 \in 0..(Size - 1)
        BY <2>1, <3>1
      <3> QED
        BY <2>1, <3>1, <3>2 DEF InUse
    <2> QED
      BY <1>q, <2>1, <2>2 DEF InUse
  <1>5. ASSUME destroyed = FALSE, NEW pos \in 0..Size, Erase(pos), Adjusted(pos) # m_write_index
        PROVE  Sound'
    <2>1. /\ undefined' = FALSE /\ Truthful' /\ Size' = Size - 1 /\ pos < Size
          /\ \A i \in 0..(Size - 2) : /\ i < pos => At(i)' = At(i)
                                      /\ i >= pos => At(i)' = At(i + 1)
      BY <1>5, EraseEffect
    <2>2. ASSUME NEW i \in 0..(Size' - 1) PROVE At(i)' # Raw
      <3>s. Size \in Nat
        BY <1>5, <1>n
      <3>p. pos \in Nat
        BY <3>s
      <3>1. Size \in Nat /\ pos \in Nat /\ InUse
        BY <1>5, <1>u, <3>p, <3>s
      <3>2. i \in 0..(Size - 2) /\ i \in 0..(Size - 1) /\ i + 1 \in 0..(Size - 1)
            /\ (i < pos \/ i >= pos)
        BY <2>1, <3>1
      <3> QED
        BY <2>1, <3>1, <3>2 DEF InUse
    <2> QED
      BY <1>q, <2>1, <2>2 DEF InUse
  <1>6. ASSUME destroyed = FALSE, Destroy PROVE Sound'
    <2>1. /\ undefined' = \E i \in 1..Size : NoFlag(Adjusted(i - 1)) \/ Dead(Adjusted(i - 1))
          /\ destroyed' = TRUE
      BY <1>6 DEF Destroy
    <2>2. ASSUME NEW i \in 1..Size PROVE ~ NoFlag(Adjusted(i - 1)) /\ ~ Dead(Adjusted(i - 1))
      <3>0. m_capacity \in Nat /\ Size \in Nat /\ Size <= m_capacity - 1
        BY <1>6, <1>n
      <3>t. Truthful
        BY <1>6, SoundFacts
      <3>1. i - 1 \in 0..(m_capacity - 1) /\ Truthful
        BY <3>0, <3>t
      <3>2. Adjusted(i - 1) \in Slots
        BY <1>6, <3>1, SoundFacts
      <3> QED
        BY <3>1, <3>2 DEF NoFlag, Dead, IsConstructed, Truthful
    <2>3. undefined' = FALSE
      BY <2>1, <2>2
    <2> QED
      BY <1>q, <2>1, <2>3
  <1>7. ASSUME UNCHANGED <<m_buffer, m_constructed, indices, undefined, destroyed>> PROVE Sound'
    <2>1. Truthful' = Truthful /\ InUse' = InUse
      BY <1>7 DEF Truthful, InUse, At, Adjusted, Size, Slots, indices
    <2>2. destroyed = FALSE => Truthful /\ InUse
      BY DEF Sound
    <2> QED
      BY <1>0, <1>7, <1>q, <2>1, <2>2
  <1> QED
    BY <1>1, <1>2, <1>3, <1>4, <1>5, <1>6, <1>7, <1>s DEF SoundStep

(* The invariant behind what is promised of the sound calls. *)
THEOREM RingSound == ASSUME OnlySoundCalls PROVE Spec => []Sound
  <1>1. Sound /\ [Next]_vars => Sound'
    BY SoundKept
  <1> QED
    BY <1>1, SoundInit, PTL DEF Spec

(* Push, pop, insert, erase, destruction and iteration, in any order: the flag of
   every slot says whether there is an object in it, so that no object is
   destroyed twice or constructed over. *)
THEOREM RingFlagsTruthful == ASSUME OnlySoundCalls PROVE Spec => []FlagsTruthful
  <1>1. Sound => FlagsTruthful
    BY DEF Sound, FlagsTruthful, Truthful, TypeOK
  <1> QED
    BY <1>1, RingSound, PTL

(* None of those calls touches an object, a slot or a flag that is not there. *)
THEOREM RingWellDefined == ASSUME OnlySoundCalls PROVE Spec => []WellDefined
  <1>1. Sound => WellDefined
    BY DEF Sound, WellDefined
  <1> QED
    BY <1>1, RingSound, PTL
----------------------------------------------------------------------------
(* The deque *)

(* u is t with e inserted after its first i elements, element by element. *)
InsertedAt(u, t, i, e) ==
    \A j \in 1..Len(u) : /\ j <= i => u[j] = t[j]
                         /\ j = i + 1 => u[j] = e
                         /\ j > i + 1 => u[j] = t[j - 1]

(* A sequence that is t with e put behind its first i elements. *)
LEMMA SequenceInserted ==
    ASSUME NEW S, NEW t \in Seq(S), NEW u \in Seq(S), NEW e \in S, NEW i \in 0..Len(t),
           Len(u) = Len(t) + 1, InsertedAt(u, t, i, e)
    PROVE  u = SubSeq(t, 1, i) \o <<e>> \o SubSeq(t, i + 1, Len(t))
  <1> USE DEF InsertedAt
  <1> DEFINE a == SubSeq(t, 1, i)
             b == SubSeq(t, i + 1, Len(t))
             m == a \o <<e>>
             n == Len(t)
  <1>0. n \in Nat /\ i \in Nat /\ i <= n
    BY LenProperties
  <1>1. a \in Seq(S) /\ Len(a) = i /\ \A j \in 1..i : a[j] = t[j]
    <2>1. \A j \in 1..i : t[j] \in S
      BY <1>0, ElementOfSeq
    <2>2. /\ a \in Seq(S) /\ Len(a) = IF 1 <= i THEN i - 1 + 1 ELSE 0
          /\ \A j \in 1..(i - 1 + 1) : a[j] = t[1 + j - 1]
      BY <1>0, <2>1, SubSeqProperties
    <2> HIDE DEF a
    <2>3. \A j \in 1..i : a[j] = t[j]
      BY <1>0, <2>2
    <2> QED
      BY <1>0, <2>2, <2>3
  <1>2. b \in Seq(S) /\ Len(b) = n - i /\ \A j \in 1..(n - i) : b[j] = t[i + j]
    <2>1. \A j \in (i + 1)..n : t[j] \in S
      BY <1>0, ElementOfSeq
    <2>2. /\ b \in Seq(S) /\ Len(b) = IF i + 1 <= n THEN n - (i + 1) + 1 ELSE 0
          /\ \A j \in 1..(n - (i + 1) + 1) : b[j] = t[(i + 1) + j - 1]
      BY <1>0, <2>1, SubSeqProperties
    <2> HIDE DEF b, n
    <2>3. \A j \in 1..(n - i) : b[j] = t[i + j]
      <3> TAKE j \in 1..(n - i)
      <3>1. j \in 1..(n - (i + 1) + 1) /\ (i + 1) + j - 1 = i + j
        BY <1>0
      <3> QED
        BY <2>2, <3>1
    <2> QED
      BY <1>0, <2>2, <2>3
  <1>3. <<e>> \in Seq(S) /\ Len(<<e>>) = 1 /\ <<e>>[1] = e
    OBVIOUS
  <1> DEFINE q == <<e>>
  <1> HIDE DEF a, b, n, q
  <1>4. m \in Seq(S) /\ Len(m) = i + 1 /\ \A j \in 1..(i + 1) : m[j] = IF j <= i THEN a[j] ELSE e
    <2>1. q \in Seq(S) /\ Len(q) = 1 /\ q[1] = e
      BY <1>3 DEF q
    <2> DEFINE z == a \o q
    <2>2. /\ z \in Seq(S) /\ Len(z) = Len(a) + Len(q)
          /\ \A j \in 1..(Len(a) + Len(q)) : z[j] = IF j <= Len(a) THEN a[j] ELSE q[j - Len(a)]
      BY ZenonT(60), <1>1, <2>1, ConcatProperties
    <2> HIDE DEF z
    <2>3. ASSUME NEW j \in 1..(i + 1) PROVE z[j] = IF j <= i THEN a[j] ELSE e
      <3>1. z[j] = IF j <= i THEN a[j] ELSE q[j - i]
        BY <1>0, <1>1, <2>1, <2>2
      <3>2. ~ (j <= i) => j - i = 1
        BY <1>0
      <3> QED
        BY <2>1, <3>1, <3>2
    <2>4. z \in Seq(S) /\ Len(z) = i + 1
      BY <1>0, <1>1, <2>1, <2>2
    <2> QED
      BY <2>3, <2>4 DEF z, q
  <1> HIDE DEF m
  <1> DEFINE x == m \o b
  <1>5. /\ x \in Seq(S) /\ Len(x) = Len(m) + Len(b)
        /\ \A j \in 1..(Len(m) + Len(b)) : x[j] = IF j <= Len(m) THEN m[j] ELSE b[j - Len(m)]
    BY ZenonT(60), <1>2, <1>4, ConcatProperties
  <1> HIDE DEF x
  <1>6. Len(x) = n + 1 /\ Len(u) = n + 1
    BY <1>0, <1>2, <1>4, <1>5 DEF n
  <1>7. ASSUME NEW j \in 1..(n + 1) PROVE u[j] = x[j]
    <2>0. j \in Int
      OBVIOUS
    <2>1. CASE j <= i
      <3>1. x[j] = m[j] /\ m[j] = a[j] /\ a[j] = t[j]
        BY <1>0, <1>1, <1>2, <1>4, <1>5, <2>0, <2>1
      <3> QED
        BY <1>6, <2>1, <3>1
    <2>2. CASE j = i + 1
      <3>1. x[j] = m[j] /\ m[j] = e
        BY <1>0, <1>2, <1>4, <1>5, <2>0, <2>2
      <3> QED
        BY <1>6, <2>2, <3>1
    <2>3. CASE j > i + 1
      <3>1. j - (i + 1) \in 1..(n - i) /\ i + (j - (i + 1)) = j - 1
        BY <1>0, <2>0, <2>3
      <3>2. x[j] = b[j - (i + 1)]
        BY <1>0, <1>2, <1>4, <1>5, <2>0, <2>3
      <3>3. x[j] = t[j - 1]
        BY <1>2, <3>1, <3>2
      <3> QED
        BY <1>6, <2>3, <3>3
    <2> QED
      BY <1>0, <2>0, <2>1, <2>2, <2>3
  <1>8. u = x
    BY <1>5, <1>6, <1>7, SeqEqual
  <1> QED
    BY <1>8 DEF x, m, a, b, n

(* A sequence that is t without its element i + 1. *)
LEMMA SequenceErased ==
    ASSUME NEW S, NEW t \in Seq(S), NEW u \in Seq(S), NEW i \in 0..(Len(t) - 1),
           Len(u) = Len(t) - 1,
           \A j \in 1..Len(u) : /\ j <= i => u[j] = t[j]
                                /\ j > i => u[j] = t[j + 1]
    PROVE  u = SubSeq(t, 1, i) \o SubSeq(t, i + 2, Len(t))
  <1> DEFINE a == SubSeq(t, 1, i)
             b == SubSeq(t, i + 2, Len(t))
             n == Len(t)
  <1>0. n \in Nat /\ i \in Nat /\ i <= n - 1
    BY LenProperties
  <1>1. a \in Seq(S) /\ Len(a) = i /\ \A j \in 1..i : a[j] = t[j]
    <2>1. \A j \in 1..i : t[j] \in S
      BY <1>0, ElementOfSeq
    <2>2. /\ a \in Seq(S) /\ Len(a) = IF 1 <= i THEN i - 1 + 1 ELSE 0
          /\ \A j \in 1..(i - 1 + 1) : a[j] = t[1 + j - 1]
      BY <1>0, <2>1, SubSeqProperties
    <2> HIDE DEF a
    <2>3. \A j \in 1..i : a[j] = t[j]
      BY <1>0, <2>2
    <2> QED
      BY <1>0, <2>2, <2>3
  <1>2. b \in Seq(S) /\ Len(b) = n - i - 1 /\ \A j \in 1..(n - i - 1) : b[j] = t[i + 1 + j]
    <2>1. \A j \in (i + 2)..n : t[j] \in S
      BY <1>0, ElementOfSeq
    <2>2. /\ b \in Seq(S) /\ Len(b) = IF i + 2 <= n THEN n - (i + 2) + 1 ELSE 0
          /\ \A j \in 1..(n - (i + 2) + 1) : b[j] = t[(i + 2) + j - 1]
      BY <1>0, <2>1, SubSeqProperties
    <2> HIDE DEF b, n
    <2>3. \A j \in 1..(n - i - 1) : b[j] = t[i + 1 + j]
      <3> TAKE j \in 1..(n - i - 1)
      <3>1. j \in 1..(n - (i + 2) + 1) /\ (i + 2) + j - 1 = i + 1 + j
        BY <1>0
      <3> QED
        BY <2>2, <3>1
    <2> QED
      BY <1>0, <2>2, <2>3
  <1> HIDE DEF a, b, n
  <1> DEFINE x == a \o b
  <1>5. /\ x \in Seq(S) /\ Len(x) = Len(a) + Len(b)
        /\ \A j \in 1..(Len(a) + Len(b)) : x[j] = IF j <= Len(a) THEN a[j] ELSE b[j - Len(a)]
    <2>1. a \in Seq(S) /\ b \in Seq(S)
      BY <1>1, <1>2
    <2> QED
      BY ONLY <2>1, ConcatProperties
  <1> HIDE DEF x
  <1>6. Len(x) = n - 1 /\ Len(u) = n - 1
    BY <1>0, <1>1, <1>2, <1>5 DEF n
  <1>7. ASSUME NEW j \in 1..(n - 1) PROVE u[j] = x[j]
    <2>0. j \in Int
      OBVIOUS
    <2>1. CASE j <= i
      <3>1. x[j] = a[j] /\ a[j] = t[j]
        BY <1>0, <1>1, <1>2, <1>5, <2>0, <2>1
      <3> QED
        BY <1>6, <2>1, <3>1
    <2>3. CASE j > i
      <3>1. j - i \in 1..(n - i - 1) /\ i + 1 + (j - i) = j + 1
        BY <1>0, <2>0, <2>3
      <3>2. x[j] = b[j - i]
        BY <1>0, <1>1, <1>2, <1>5, <2>0, <2>3
      <3>3. x[j] = t[j + 1]
        BY <1>2, <3>1, <3>2
      <3> QED
        BY <1>6, <2>3, <3>3
    <2> QED
      BY <1>0, <2>0, <2>1, <2>3
  <1>8. u = x
    BY <1>5, <1>6, <1>7, SeqEqual
  <1> QED
    BY <1>8 DEF x, a, b, n
(* The elements of the deque. *)
Items == IF destroyed THEN <<>> ELSE Contents

ItemsAgree ==
    destroyed = FALSE =>
        /\ Items = Contents /\ Items \in Seq(Elements) /\ Len(Items) = Size /\ Size \in Nat
        /\ \A i \in 1..Size : Items[i] = At(i - 1)

LEMMA ItemsFacts == Sound => ItemsAgree
  <1> SUFFICES ASSUME Sound, destroyed = FALSE
               PROVE  /\ Items = Contents /\ Items \in Seq(Elements)
                      /\ Len(Items) = Size /\ Size \in Nat
                      /\ \A i \in 1..Size : Items[i] = At(i - 1)
    BY DEF ItemsAgree
  <1>1. m_capacity \in Nat /\ Size \in Nat /\ Size <= m_capacity - 1
    BY SizeFacts
  <1>2. Items = [i \in 1..Size |-> At(i - 1)] /\ Items = Contents
    BY DEF Items, Contents, At
  <1>3. ASSUME NEW i \in 1..Size PROVE At(i - 1) \in Elements
    <2>1. i - 1 \in 0..(Size - 1) /\ i - 1 \in 0..(m_capacity - 1)
      BY <1>1
    <2>2. At(i - 1) # Raw
      BY <2>1, SoundFacts DEF InUse
    <2>3. Adjusted(i - 1) \in Slots /\ m_buffer \in [Slots -> Elements \cup {Raw}]
      BY <2>1, SoundFacts
    <2> QED
      BY <2>2, <2>3 DEF At
  <1>4. Items \in Seq(Elements) /\ Len(Items) = Size
    BY <1>1, <1>2, <1>3, IsASeq
  <1> QED
    BY <1>1, <1>2, <1>4

(* The deque's own definition of a full one. *)
LEMMA FullFacts ==
    ASSUME Sound, destroyed = FALSE, ItemsAgree
    PROVE  Full <=> Len(Items) = InitialCapacity
  <1>1. m_capacity = InitialCapacity + 1 /\ InitialCapacity \in Nat /\ Size \in Nat
        /\ Len(Items) = Size
    BY SoundFacts DEF ItemsAgree
  <1> QED
    BY <1>1 DEF Full

(* push_back() is the deque's. *)
LEMMA AppendRefines ==
    ASSUME Sound, destroyed = FALSE, ItemsAgree, ItemsAgree', NEW e \in Elements, Append_(e)
    PROVE  Deque!Next
  <1>0. UNCHANGED <<returned, destroyed>>
    BY DEF Append_
  <1>1. /\ Items \in Seq(Elements) /\ Len(Items) = Size /\ Size \in Nat
        /\ \A i \in 1..Size : Items[i] = At(i - 1)
    BY DEF ItemsAgree
  <1>2. /\ Items' \in Seq(Elements) /\ Len(Items') = Size' /\ Size' \in Nat
        /\ \A i \in 1..Size' : Items'[i] = At(i - 1)'
    BY <1>0 DEF ItemsAgree
  <1> DEFINE kept == IF Len(Items) = InitialCapacity THEN Tail(Items) ELSE Items
  <1>3. Items' = Append(kept, e)
    <2>1. CASE ~ Full
      <3>1. /\ Size' = Size + 1
            /\ \A i \in 0..(Size - 1) : At(i)' = At(i)
            /\ \A i \in 0..Size : i = Size => At(i)' = e
        BY <2>1, AppendEffect
      <3>2. kept = Items
        BY <2>1, FullFacts
      <3>3. /\ Append(Items, e) \in Seq(Elements) /\ Len(Append(Items, e)) = Size + 1
            /\ \A i \in 1..Size : Append(Items, e)[i] = Items[i]
            /\ Append(Items, e)[Size + 1] = e
        BY <1>1, AppendProperties
      <3> DEFINE s == Items'
                 t == Append(Items, e)
      <3>4. ASSUME NEW i \in 1..(Size + 1) PROVE s[i] = t[i]
        <4>1. Items'[i] = At(i - 1)'
          BY <1>2, <3>1
        <4>2. CASE i = Size + 1
          <5>1. i - 1 \in 0..Size /\ i - 1 = Size
            BY <1>1, <4>2
          <5>2. At(i - 1)' = e
            BY <3>1, <5>1
          <5> QED
            BY <3>3, <4>1, <4>2, <5>2
        <4>3. CASE i # Size + 1
          <5>1. i \in 1..Size /\ i - 1 \in 0..(Size - 1)
            BY <1>1, <4>3
          <5>2. At(i - 1)' = At(i - 1)
            BY <3>1, <5>1
          <5> QED
            BY <1>1, <3>3, <4>1, <5>1, <5>2
        <4> QED
          BY <4>2, <4>3
      <3>5. s \in Seq(Elements) /\ t \in Seq(Elements) /\ Len(s) = Size + 1 /\ Len(t) = Size + 1
        BY <1>2, <3>1, <3>3
      <3> HIDE DEF s, t
      <3>6. s = t
        BY <3>4, <3>5, SeqEqual
      <3> QED
        BY <3>2, <3>6 DEF s, t
    <2>2. CASE Full
      <3>1. /\ Size' = Size /\ Size > 0
            /\ \A i \in 0..(Size - 2) : At(i)' = At(i + 1)
            /\ \A i \in 0..Size : i = Size - 1 => At(i)' = e
        BY <2>2, AppendEffect
      <3>2. kept = Tail(Items)
        BY <2>2, FullFacts
      <3> DEFINE r == Tail(Items)
      <3>3. /\ r \in Seq(Elements) /\ Len(r) = Size - 1
            /\ \A i \in 1..(Size - 1) : r[i] = Items[i + 1]
        <4>1. Items # <<>>
          BY <1>1, <3>1, EmptySeq
        <4> QED
          BY <1>1, <4>1, HeadTailProperties
      <3> HIDE DEF r
      <3> DEFINE s == Items'
                 t == Append(r, e)
      <3>4. /\ t \in Seq(Elements) /\ Len(t) = Size
            /\ \A i \in 1..(Size - 1) : t[i] = r[i]
            /\ t[Size] = e
        <4>1. /\ t \in Seq(Elements) /\ Len(t) = Len(r) + 1
              /\ \A i \in 1..Len(r) : t[i] = r[i]
              /\ t[Len(r) + 1] = e
          BY <3>3, AppendProperties
        <4>2. Len(r) + 1 = Size
          BY <1>1, <3>3
        <4> QED
          BY <3>3, <4>1, <4>2
      <3> HIDE DEF t
      <3>5. ASSUME NEW i \in 1..Size PROVE s[i] = t[i]
        <4>1. Items'[i] = At(i - 1)'
          BY <1>2, <3>1
        <4>2. CASE i = Size
          <5>1. i - 1 \in 0..Size /\ i - 1 = Size - 1
            BY <1>1, <4>2
          <5>2. At(i - 1)' = e
            BY <3>1, <5>1
          <5> QED
            BY <3>4, <4>1, <4>2, <5>2
        <4>3. CASE i # Size
          <5>1. i \in 1..(Size - 1) /\ i - 1 \in 0..(Size - 2) /\ (i - 1) + 1 = i
                /\ i + 1 \in 1..Size /\ (i + 1) - 1 = i
            BY <1>1, <4>3
          <5>2. At(i - 1)' = At(i)
            BY <3>1, <5>1
          <5>3. t[i] = At(i)
            BY <1>1, <3>3, <3>4, <5>1
          <5> QED
            BY <4>1, <5>2, <5>3
        <4> QED
          BY <4>2, <4>3
      <3>6. s \in Seq(Elements) /\ Len(s) = Size
        BY <1>2, <3>1
      <3> HIDE DEF s
      <3>7. s = t
        BY <3>4, <3>5, <3>6, SeqEqual
      <3> QED
        BY <3>2, <3>7 DEF s, t, r
    <2> QED
      BY <2>1, <2>2
  <1>4. Deque!PushBack(e)
    BY <1>0, <1>3 DEF Deque!PushBack, Deque!Full, Items
  <1> QED
    BY <1>0, <1>4 DEF Deque!Next
(* pop_back() and pop_front() are the deque's. *)
LEMMA PopRefines ==
    ASSUME Sound, destroyed = FALSE, ItemsAgree, ItemsAgree', Size > 0, PopBack \/ PopFront
    PROVE  Deque!Next
  <1>0. UNCHANGED destroyed
    BY DEF PopBack, PopFront
  <1>1. /\ Items \in Seq(Elements) /\ Len(Items) = Size /\ Size \in Nat
        /\ \A i \in 1..Size : Items[i] = At(i - 1)
    BY DEF ItemsAgree
  <1>2. /\ Items' \in Seq(Elements) /\ Len(Items') = Size' /\ Size' \in Nat
        /\ \A i \in 1..Size' : Items'[i] = At(i - 1)'
    BY <1>0 DEF ItemsAgree
  <1>3. Items # <<>>
    BY <1>1, EmptySeq
  <1>4. CASE PopBack
    <2>1. /\ Size' = Size - 1 /\ returned' = At(Size - 1)
          /\ \A i \in 0..(Size - 2) : At(i)' = At(i)
      BY <1>4, PopBackEffect
    <2>2. returned' = Items[Len(Items)]
      <3>1. Size \in 1..Size
        BY <1>1
      <3> QED
        BY <1>1, <2>1, <3>1
    <2> DEFINE s == Items'
               t == SubSeq(Items, 1, Len(Items) - 1)
    <2>3. t \in Seq(Elements) /\ Len(t) = Size - 1 /\ \A i \in 1..(Size - 1) : t[i] = Items[i]
      <3> DEFINE n == Size - 1
      <3>1. n \in Nat /\ \A i \in 1..n : Items[i] \in Elements
        BY <1>1, ElementOfSeq
      <3> HIDE DEF n
      <3>2. /\ SubSeq(Items, 1, n) \in Seq(Elements)
            /\ Len(SubSeq(Items, 1, n)) = IF 1 <= n THEN n - 1 + 1 ELSE 0
            /\ \A i \in 1..(n - 1 + 1) : SubSeq(Items, 1, n)[i] = Items[1 + i - 1]
        BY <3>1, SubSeqProperties
      <3>3. t = SubSeq(Items, 1, n)
        BY <1>1 DEF n
      <3> HIDE DEF t
      <3>4. t \in Seq(Elements) /\ Len(t) = n /\ \A i \in 1..n : t[i] = Items[i]
        BY <3>1, <3>2, <3>3
      <3> QED
        BY <3>4 DEF n
    <2> HIDE DEF t
    <2>4. ASSUME NEW i \in 1..(Size - 1) PROVE s[i] = t[i]
      <3>1. i \in 1..Size /\ i - 1 \in 0..(Size - 2)
        BY <1>1
      <3>2. Items'[i] = At(i - 1)'
        BY <1>2, <2>1
      <3>3. At(i - 1)' = At(i - 1)
        BY <2>1, <3>1
      <3> QED
        BY <1>1, <2>3, <3>1, <3>2, <3>3
    <2>5. s \in Seq(Elements) /\ Len(s) = Size - 1
      BY <1>2, <2>1
    <2> HIDE DEF s
    <2>6. s = t
      BY <2>3, <2>4, <2>5, SeqEqual
    <2>7. Items' = SubSeq(Items, 1, Len(Items) - 1)
      BY <2>6 DEF s, t
    <2>8. Deque!PopBack
      BY <1>3, <2>2, <2>7 DEF Deque!PopBack, Items
    <2> QED
      BY <1>0, <2>8 DEF Deque!Next
  <1>5. CASE PopFront
    <2>1. /\ Size' = Size - 1 /\ returned' = At(0)
          /\ \A i \in 0..(Size - 2) : At(i)' = At(i + 1)
      BY <1>5, PopFrontEffect
    <2>2. returned' = Head(Items)
      <3>1. 1 \in 1..Size /\ 1 - 1 = 0
        BY <1>1
      <3>2. Items[1] = At(0)
        BY <1>1, <3>1
      <3> QED
        BY <1>1, <2>1, <3>2
    <2> DEFINE s == Items'
               t == Tail(Items)
    <2>3. t \in Seq(Elements) /\ Len(t) = Size - 1 /\ \A i \in 1..(Size - 1) : t[i] = Items[i + 1]
      BY <1>1, <1>3, HeadTailProperties
    <2> HIDE DEF t
    <2>4. ASSUME NEW i \in 1..(Size - 1) PROVE s[i] = t[i]
      <3>1. i - 1 \in 0..(Size - 2) /\ (i - 1) + 1 = i /\ i + 1 \in 1..Size /\ (i + 1) - 1 = i
        BY <1>1
      <3>2. Items'[i] = At(i - 1)'
        BY <1>2, <2>1
      <3>3. At(i - 1)' = At(i)
        BY <2>1, <3>1
      <3>4. Items[i + 1] = At(i)
        BY <1>1, <3>1
      <3> QED
        BY <2>3, <3>2, <3>3, <3>4
    <2>5. s \in Seq(Elements) /\ Len(s) = Size - 1
      BY <1>2, <2>1
    <2> HIDE DEF s
    <2>6. s = t
      BY <2>3, <2>4, <2>5, SeqEqual
    <2>7. Items' = Tail(Items)
      BY <2>6 DEF s, t
    <2>8. Deque!PopFront
      BY <1>3, <2>2, <2>7 DEF Deque!PopFront, Items
    <2> QED
      BY <1>0, <2>8 DEF Deque!Next
  <1> QED
    BY <1>4, <1>5

(* insert() before an element is the deque's. *)
LEMMA InsertRefines ==
    ASSUME Sound, destroyed = FALSE, ItemsAgree, ItemsAgree', NEW e \in Elements,
           NEW pos \in 0..Size, Insert(pos, e), Adjusted(pos) # m_write_index
    PROVE  Deque!Next
  <1>0. UNCHANGED <<returned, destroyed>> /\ ~ Full
    BY DEF Insert
  <1>1. /\ Items \in Seq(Elements) /\ Len(Items) = Size /\ Size \in Nat
        /\ \A i \in 1..Size : Items[i] = At(i - 1)
    BY DEF ItemsAgree
  <1>2. /\ Items' \in Seq(Elements) /\ Len(Items') = Size' /\ Size' \in Nat
        /\ \A i \in 1..Size' : Items'[i] = At(i - 1)'
    BY <1>0 DEF ItemsAgree
  <1>3. /\ Size' = Size + 1 /\ pos < Size
        /\ \A i \in 0..Size : /\ i < pos => At(i)' = At(i)
                              /\ i = pos => At(i)' = e
                              /\ i > pos => At(i)' = At(i - 1)
    BY InsertEffect
  <1>n. pos \in Nat
    BY <1>1
  <1> DEFINE s == Items'
             t == Items
  <1>4. ASSUME NEW j \in 1..(Size + 1)
        PROVE  /\ j <= pos => s[j] = t[j]
               /\ j = pos + 1 => s[j] = e
               /\ j > pos + 1 => s[j] = t[j - 1]
    <2>1. Items'[j] = At(j - 1)' /\ j - 1 \in 0..Size
      BY <1>1, <1>2, <1>3
    <2>2. ASSUME j <= pos PROVE s[j] = t[j]
      <3>1. j - 1 < pos /\ j \in 1..Size
        BY <1>1, <1>3, <1>n, <2>2
      <3> QED
        BY <1>1, <1>3, <2>1, <3>1
    <2>3. ASSUME j = pos + 1 PROVE s[j] = e
      <3>1. j - 1 = pos
        BY <1>n, <2>3
      <3> QED
        BY <1>3, <2>1, <3>1
    <2>4. ASSUME j > pos + 1 PROVE s[j] = t[j - 1]
      <3>1. j - 1 > pos /\ j - 1 \in 1..Size
        BY <1>1, <1>n, <2>4
      <3> QED
        BY <1>1, <1>3, <2>1, <3>1
    <2> QED
      BY <2>2, <2>3, <2>4
  <1>5. s \in Seq(Elements) /\ t \in Seq(Elements) /\ Len(t) = Size /\ Len(s) = Len(t) + 1
        /\ pos \in 0..Len(t)
    BY <1>1, <1>2, <1>3
  <1> HIDE DEF s, t
  <1>6. s = SubSeq(t, 1, pos) \o <<e>> \o SubSeq(t, pos + 1, Len(t))
    <2>1. InsertedAt(s, t, pos, e)
      BY <1>4, <1>5 DEF InsertedAt
    <2> QED
      BY <1>5, <2>1, SequenceInserted
  <1>7. Len(Items) # InitialCapacity
    BY <1>0, FullFacts
  <1>8. Deque!InsertAt(pos, e)
    <2>1. pos <= Len(Items)
      BY <1>1
    <2>2. Items' = SubSeq(Items, 1, pos) \o <<e>> \o SubSeq(Items, pos + 1, Len(Items))
      BY <1>6 DEF s, t
    <2> QED
      BY <1>0, <1>7, <2>1, <2>2 DEF Deque!InsertAt, Deque!Full, Items
  <1>9. pos \in 0..Len(Items)
    BY <1>1
  <1> QED
    BY <1>0, <1>8, <1>9 DEF Deque!Next, Items

(* erase() of an element is the deque's. *)
LEMMA EraseRefines ==
    ASSUME Sound, destroyed = FALSE, ItemsAgree, ItemsAgree',
           NEW pos \in 0..Size, Erase(pos), Adjusted(pos) # m_write_index
    PROVE  Deque!Next
  <1>0. UNCHANGED <<returned, destroyed>>
    BY DEF Erase
  <1>1. /\ Items \in Seq(Elements) /\ Len(Items) = Size /\ Size \in Nat
        /\ \A i \in 1..Size : Items[i] = At(i - 1)
    BY DEF ItemsAgree
  <1>2. /\ Items' \in Seq(Elements) /\ Len(Items') = Size' /\ Size' \in Nat
        /\ \A i \in 1..Size' : Items'[i] = At(i - 1)'
    BY <1>0 DEF ItemsAgree
  <1>3. /\ Size' = Size - 1 /\ pos < Size
        /\ \A i \in 0..(Size - 2) : /\ i < pos => At(i)' = At(i)
                                    /\ i >= pos => At(i)' = At(i + 1)
    BY EraseEffect
  <1>n. pos \in Nat
    BY <1>1
  <1> DEFINE s == Items'
             t == Items
  <1>4. ASSUME NEW j \in 1..(Size - 1)
        PROVE  /\ j <= pos => s[j] = t[j]
               /\ j > pos => s[j] = t[j + 1]
    <2>1. Items'[j] = At(j - 1)' /\ j - 1 \in 0..(Size - 2)
      BY <1>1, <1>2, <1>3
    <2>2. ASSUME j <= pos PROVE s[j] = t[j]
      <3>1. j - 1 < pos /\ j \in 1..Size
        BY <1>1, <1>n, <2>2
      <3> QED
        BY <1>1, <1>3, <2>1, <3>1
    <2>3. ASSUME j > pos PROVE s[j] = t[j + 1]
      <3>1. j - 1 >= pos /\ j + 1 \in 1..Size /\ (j - 1) + 1 = j /\ (j + 1) - 1 = j
        BY <1>1, <1>n, <2>3
      <3>2. At(j - 1)' = At(j)
        BY <1>3, <2>1, <3>1
      <3>3. t[j + 1] = At(j)
        BY <1>1, <3>1
      <3> QED
        BY <2>1, <3>2, <3>3
    <2> QED
      BY <2>2, <2>3
  <1>5. s \in Seq(Elements) /\ t \in Seq(Elements) /\ Len(t) = Size /\ Len(s) = Len(t) - 1
        /\ pos \in 0..(Len(t) - 1)
    BY <1>1, <1>2, <1>3, <1>n
  <1> HIDE DEF s, t
  <1>6. s = SubSeq(t, 1, pos) \o SubSeq(t, pos + 2, Len(t))
    <2>1. \A j \in 1..Len(s) : /\ j <= pos => s[j] = t[j]
                               /\ j > pos => s[j] = t[j + 1]
      BY <1>4, <1>5
    <2> QED
      BY <1>5, <2>1, SequenceErased
  <1>7. Deque!EraseAt(pos)
    <2>1. Items' = SubSeq(Items, 1, pos) \o SubSeq(Items, pos + 2, Len(Items))
      BY <1>6 DEF s, t
    <2> QED
      BY <1>0, <2>1 DEF Deque!EraseAt, Items
  <1>8. pos \in 0..(Len(Items) - 1)
    BY <1>1, <1>3, <1>n
  <1> QED
    BY <1>0, <1>7, <1>8 DEF Deque!Next, Items

(* Push, pop, insert, erase and destruction do to the elements what their
   comments say, in whatever order they are called and wherever the ring has
   turned to: a RingBuffer that gets only those calls is a bounded deque. *)
THEOREM RingIsDeque == ASSUME OnlySoundCalls PROVE Spec => ImplementsBoundedDeque
  <1>1. Init /\ Sound /\ ItemsAgree => Deque!Init
    <2> SUFFICES ASSUME Init, Sound, ItemsAgree PROVE Deque!Init
      OBVIOUS
    <2>1. returned = None /\ destroyed = FALSE /\ m_start_index = 0
          /\ InitialCapacity \in Nat \ {0}
      BY RingAssumption DEF Init, InitEmpty, InitList, InitRest
    <2>2. /\ Items \in Seq(Elements) /\ Len(Items) = Size /\ Size \in Nat
      BY <2>1 DEF ItemsAgree
    <2>3. Items \in {<<>>} \cup [1..InitialCapacity -> Elements]
      <3>1. CASE InitEmpty
        <4>1. Size = 0
          BY <2>1, <3>1 DEF InitEmpty, Size
        <4> QED
          BY <2>2, <4>1, EmptySeq
      <3>2. CASE InitList
        <4>1. Size = InitialCapacity
          BY <2>1, <3>2 DEF InitList, Size
        <4>2. Items \in [1..Len(Items) -> Elements]
          BY <2>2, LenProperties
        <4> QED
          BY <2>2, <4>1, <4>2
      <3> QED
        BY <3>1, <3>2 DEF Init
    <2> QED
      BY <2>1, <2>3 DEF Deque!Init, Items
  <1>2. Sound /\ Sound' /\ ItemsAgree /\ ItemsAgree' /\ [Next]_vars
          => [Deque!Next]_<<Items, returned, destroyed>>
    <2> SUFFICES ASSUME Sound, ItemsAgree, ItemsAgree', [Next]_vars
                 PROVE  Deque!Next \/ UNCHANGED <<Items, returned, destroyed>>
      OBVIOUS
    <2>1. SoundStep
      BY StepIsSound
    <2>2. ASSUME destroyed = FALSE, Destroy PROVE Deque!Next
      <3>1. destroyed' = TRUE /\ UNCHANGED returned
        BY <2>2 DEF Destroy
      <3>2. Items' = <<>>
        BY <3>1 DEF Items
      <3> QED
        BY <2>2, <3>1, <3>2 DEF Deque!Next, Deque!Destroy, Items
    <2>3. ASSUME destroyed = FALSE, Size = 0, returned' = None,
                 UNCHANGED <<m_buffer, m_constructed, indices, undefined, destroyed>>
          PROVE  Deque!Next
      <3>1. Items = <<>>
        BY <2>3, EmptySeq DEF ItemsAgree
      <3>2. Items' = Items /\ destroyed' = destroyed
        BY <2>3 DEF Items, Contents, Adjusted, Size, indices
      <3>3. Deque!PopBack
        BY <2>3, <3>1, <3>2 DEF Deque!PopBack, Items
      <3> QED
        BY <2>3, <3>2, <3>3 DEF Deque!Next
    <2>4. ASSUME UNCHANGED <<m_buffer, m_constructed, indices, returned, undefined, destroyed>>
          PROVE  UNCHANGED <<Items, returned, destroyed>>
      BY <2>4 DEF Items, Contents, Adjusted, Size, indices
    <2> QED
      BY <2>1, <2>2, <2>3, <2>4, AppendRefines, InsertRefines, PopRefines, EraseRefines
      DEF SoundStep
  <1>3. [][Deque!Next]_<<Items, returned, destroyed>>
          <=> [][Deque!Next]_<<IF destroyed THEN <<>> ELSE Contents, returned, destroyed>>
    BY DEF Items
  <1>4. Sound /\ [Next]_vars => Sound'
    BY SoundKept
  <1> QED
    BY <1>1, <1>2, <1>3, <1>4, SoundInit, ItemsFacts, PTL
    DEF Spec, ImplementsBoundedDeque, Deque!Spec
=============================================================================
