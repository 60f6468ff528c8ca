------------------------------ MODULE UniquePtr ------------------------------
(***************************************************************************)
(* UniquePtr<T, Deleter>: a CompressedPair of a pointer and the deleter    *)
(* that frees it, with the four deleters of the library.  A deleter may    *)
(* have state (an allocator, a number of elements): freeing a block        *)
(* through the state of another deleter is undefined, as is freeing it     *)
(* twice.  Pointers that left a UniquePtr belong to the caller.            *)
(***************************************************************************)
EXTENDS Integers, FiniteSets

CONSTANTS
    Pointers,       \* variables of type UniquePtr
    Blocks,         \* what can be allocated
    DeleterStates,  \* the states a stateful deleter can have
    Stateless,      \* the only state of a DefaultDeleter
    Null            \* nullptr

(* nullptr is no block, and no state of a deleter. *)
ASSUME UniqueAssumption == Null \notin Blocks \cup DeleterStates \cup {Stateless}

VARIABLES
    uniqueDeleter,  \* the type of the deleter
    unique,         \* unique[h]: alive, first() the pointer, second() the deleter
    block,          \* block[b]: the deleter state it must be freed with, if allocated
    raw,            \* blocks the caller owns through a plain pointer
    uniqueFault     \* "none", or the first undefined thing that happened

uniqueVars == <<uniqueDeleter, unique, block, raw, uniqueFault>>

DeleterTypes ==
    {"DefaultDeleter", "DefaultDeleterArray", "AllocatorAware", "AllocatorAwareArray"}
States ==
    IF uniqueDeleter \in {"DefaultDeleter", "DefaultDeleterArray"}
    THEN {Stateless}
    ELSE DeleterStates

NotAllocated == Null

(* delete ptr and delete[] ptr do nothing for nullptr. *)
DefaultDelete(b) ==
    CASE b = Null -> "none"
      [] b # Null /\ block[b] = NotAllocated -> "twice"
      [] OTHER -> "none"

(* AllocatorAwareDeleter<T> dereferences and destroys whatever it is given. *)
AllocatorAwareDelete(b, d) ==
    CASE b = Null -> "null"
      [] b # Null /\ block[b] = NotAllocated -> "twice"
      [] b # Null /\ block[b] \notin {NotAllocated, d} -> "mismatch"
      [] OTHER -> "none"

(* AllocatorAwareDeleter<T[]> only deallocates. *)
AllocatorAwareArrayDelete(b, d) ==
    CASE b = Null -> "none"
      [] b # Null /\ block[b] = NotAllocated -> "twice"
      [] b # Null /\ block[b] \notin {NotAllocated, d} -> "mismatch"
      [] OTHER -> "none"

FaultOf(b, d) ==
    CASE uniqueDeleter = "AllocatorAware" -> AllocatorAwareDelete(b, d)
      [] uniqueDeleter = "AllocatorAwareArray" -> AllocatorAwareArrayDelete(b, d)
      [] OTHER -> DefaultDelete(b)

(* second()(b): the deleter in state d is invoked on b. *)
Invoke(b, d) ==
    /\ uniqueFault' = FaultOf(b, d)
    /\ block' = [x \in Blocks |-> IF x = b THEN NotAllocated ELSE block[x]]

Owning(p, d) == [alive |-> TRUE, first |-> p, second |-> d]
Absent(d) == [alive |-> FALSE, first |-> Null, second |-> d]
LivePtr(h) == unique[h].alive

(* The constructors that manage no pointer. *)
UniqueConstructNull(h, d) ==
    /\ ~LivePtr(h)
    /\ unique' = [unique EXCEPT ![h] = Owning(Null, d)]
    /\ UNCHANGED <<uniqueDeleter, block, raw, uniqueFault>>

(* The constructors from a pointer, with the deleter that can free it. *)
UniqueConstruct(h, b) ==
    /\ ~LivePtr(h)
    /\ b \in raw
    /\ unique' = [unique EXCEPT ![h] = Owning(b, block[b])]
    /\ raw' = raw \ {b}
    /\ UNCHANGED <<uniqueDeleter, block, uniqueFault>>

(* make_unique: a new object, a deleter without state. *)
MakeUnique(h, b) ==
    /\ uniqueDeleter \in {"DefaultDeleter", "DefaultDeleterArray"}
    /\ ~LivePtr(h)
    /\ block[b] = NotAllocated
    /\ block' = [block EXCEPT ![b] = Stateless]
    /\ unique' = [unique EXCEPT ![h] = Owning(b, Stateless)]
    /\ UNCHANGED <<uniqueDeleter, raw, uniqueFault>>

(* allocate_unique: a block from an allocator, and a deleter that knows it. *)
AllocateUnique(h, b, d) ==
    /\ uniqueDeleter \in {"AllocatorAware", "AllocatorAwareArray"}
    /\ ~LivePtr(h)
    /\ block[b] = NotAllocated
    /\ block' = [block EXCEPT ![b] = d]
    /\ unique' = [unique EXCEPT ![h] = Owning(b, d)]
    /\ UNCHANGED <<uniqueDeleter, raw, uniqueFault>>

(* release(): the pointer goes to the caller, nullptr stays. *)
UniqueRelease(h) ==
    /\ LivePtr(h)
    /\ raw' = raw \cup ({unique[h].first} \ {Null})
    /\ unique' = [unique EXCEPT ![h].first = Null]
    /\ UNCHANGED <<uniqueDeleter, block, uniqueFault>>

(* The move constructors: release() of the source and its deleter. *)
UniqueMoveConstruct(h, g) ==
    /\ ~LivePtr(h)
    /\ LivePtr(g)
    /\ unique' = [unique EXCEPT ![h] = Owning(unique[g].first, unique[g].second),
                                ![g].first = Null]
    /\ UNCHANGED <<uniqueDeleter, block, raw, uniqueFault>>

(* reset(ptr): the new pointer is stored, then the old one is deleted,     *)
(* whether it is nullptr or not.                                           *)
UniqueReset(h, p) ==
    /\ LivePtr(h)
    /\ p = Null \/ (p \in raw /\ block[p] = unique[h].second)
    /\ unique' = [unique EXCEPT ![h].first = p]
    /\ raw' = raw \ {p}
    /\ Invoke(unique[h].first, unique[h].second)
    /\ UNCHANGED uniqueDeleter

(* The destructor is reset(). *)
UniqueDestroy(h) ==
    /\ LivePtr(h)
    /\ unique' = [unique EXCEPT ![h] = Absent(@.second)]
    /\ Invoke(unique[h].first, unique[h].second)
    /\ UNCHANGED <<uniqueDeleter, raw>>

(* swap() exchanges both members of the pairs. *)
UniqueSwap(h, g) ==
    /\ LivePtr(h)
    /\ LivePtr(g)
    /\ unique' = [unique EXCEPT ![h] = unique[g], ![g] = unique[h]]
    /\ UNCHANGED <<uniqueDeleter, block, raw, uniqueFault>>

(* Mutant of UniqueMoveAssign: the deleter is replaced first. *)
UniqueMoveAssign_NewDeleter(h, g) ==
    /\ LivePtr(h)
    /\ LivePtr(g)
    /\ h # g
    /\ unique' = [unique EXCEPT ![h] = Owning(unique[g].first, unique[g].second),
                                ![g].first = Null]
    /\ Invoke(unique[h].first, unique[g].second)
    /\ UNCHANGED <<uniqueDeleter, raw>>

(* The move assignments: reset(ptr.release()) frees the old pointer with   *)
(* the old deleter, and only then is the deleter replaced.                 *)
UniqueMoveAssign(h, g) ==
    /\ LivePtr(h)
    /\ LivePtr(g)
    /\ IF h = g
       THEN UNCHANGED <<unique, block, uniqueFault>>
       ELSE /\ unique' = [unique EXCEPT ![h] = Owning(unique[g].first, unique[g].second),
                                        ![g].first = Null]
            /\ Invoke(unique[h].first, unique[h].second)
    /\ UNCHANGED <<uniqueDeleter, raw>>

(* The assignments from nullptr and from a pointer are resets. *)
UniqueAssign(h, p) == UniqueReset(h, p)

UniqueInit ==
    /\ uniqueDeleter \in DeleterTypes
    /\ unique = [h \in Pointers |-> Absent(Null)]
    /\ block = [b \in Blocks |-> NotAllocated]
    /\ raw = {}
    /\ uniqueFault = "none"

UniqueNext ==
    /\ uniqueFault = "none"
    /\ \/ \E h \in Pointers :
            \/ UniqueRelease(h)
            \/ UniqueDestroy(h)
            \/ \E d \in States : UniqueConstructNull(h, d)
            \/ \E p \in raw \cup {Null} : UniqueReset(h, p) \/ UniqueAssign(h, p)
       \/ \E h \in Pointers, b \in Blocks :
            \/ UniqueConstruct(h, b)
            \/ MakeUnique(h, b)
            \/ \E d \in States : AllocateUnique(h, b, d)
       \/ \E h, g \in Pointers :
            \/ UniqueMoveConstruct(h, g)
            \/ UniqueSwap(h, g)
            \/ UniqueMoveAssign(h, g)

UniqueSpec == UniqueInit /\ [][UniqueNext]_uniqueVars

-----------------------------------------------------------------------------
Owners(b) == {h \in Pointers : unique[h].first = b}

(* An allocated block has one owner - one UniquePtr, or the caller - and a *)
(* freed one has none, through any sequence of moves, swaps, releases and  *)
(* resets; the owner has the deleter the block came with, though pointer   *)
(* and deleter are moved, swapped and assigned one after the other; and    *)
(* nothing is freed twice or through another deleter (UniquePtr.h:433,     *)
(* :558, CompressedPair.h:303).  Only AllocatorAwareDeleter<T> is ever     *)
(* invoked to undefined effect: on the nullptr of a UniquePtr that was     *)
(* moved from, released or empty.                                          *)
UniqueOwnsAndFrees ==
    CASE uniqueFault = "none" ->
            /\ \A b \in Blocks :
                Cardinality(Owners(b)) + (IF b \in raw THEN 1 ELSE 0)
                    = IF block[b] = NotAllocated THEN 0 ELSE 1
            /\ \A h \in Pointers :
                unique[h].first # Null => block[unique[h].first] = unique[h].second
      [] OTHER -> uniqueFault = "null" /\ uniqueDeleter = "AllocatorAware"
=============================================================================
