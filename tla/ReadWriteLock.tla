---------------------------- MODULE ReadWriteLock ----------------------------
(***************************************************************************)
(* ReadWriteLock<T>: a value and the std::shared_mutex that guards it, and *)
(* the ScopedLockGuards that read(), write(), try_read() and try_write()   *)
(* hand out.  Every thread has a few variables for guards.  A thread asks  *)
(* for no guard of a lock it already has one of, except by copying it, and *)
(* uses no guard it has moved from: the documentation puts the first on    *)
(* the caller, the standard library the second.                            *)
(*                                                                         *)
(* std::shared_mutex is external.  It is never given to a reader beside a  *)
(* writer or to a writer beside anybody.  Whether a reader also waits for  *)
(* a writer that is still waiting, and whether trying fails for no reason, *)
(* the standard leaves open, and so does the model.                        *)
(***************************************************************************)
EXTENDS Integers, FiniteSets

CONSTANTS
    Threads,
    Locks,        \* variables of type ReadWriteLock
    GuardVars,    \* a thread's variables for guards
    LockValues,   \* values a lock can guard
    Unset,        \* m_data of a lock that is not constructed, or was moved from
    NoLock        \* what a guard variable without a guard refers to

ASSUME LockAssumption == IsFiniteSet(Threads) /\ IsFiniteSet(GuardVars)

VARIABLES
    lockData,     \* lockData[l]: m_data
    lockMutex,    \* lockMutex[l]: m_mutex
    lockGuard,    \* lockGuard[t][g]: the guard in a variable of a thread
    lockCall      \* lockCall[t]: the call in which t waits for a mutex

lockVars == <<lockData, lockMutex, lockGuard, lockCall>>

NoGuard == [kind |-> "none", lock |-> NoLock, owns |-> FALSE, saw |-> Unset]
NoCall == [op |-> "none", lock |-> NoLock, target |-> NoLock]

(* Mutant of ExclusiveFree: readers do not count. *)
ExclusiveFree_OverReaders(l) == ~lockMutex[l].exclusive

(* lock_shared and lock may take the mutex. *)
SharedFree(l) == ~lockMutex[l].exclusive
ExclusiveFree(l) == ~lockMutex[l].exclusive /\ lockMutex[l].shared = 0

LockedShared(m) == [m EXCEPT !.shared = @ + 1]
LockedExclusive(m) == [m EXCEPT !.exclusive = TRUE]
(* Mutant of Unlocked: a write lock is not unlocked. *)
Unlocked_Never(m, kind) == IF kind = "write" THEN m ELSE [m EXCEPT !.shared = @ - 1]

Unlocked(m, kind) ==
    IF kind = "write" THEN [m EXCEPT !.exclusive = FALSE] ELSE [m EXCEPT !.shared = @ - 1]

(* A guard that has just been constructed; saw is a history variable: what *)
(* it reads, or has written.                                               *)
NewGuard(kind, l) == [kind |-> kind, lock |-> l, owns |-> TRUE, saw |-> lockData[l]]

(* operator*, operator->, read(): what a guard refers to. *)
Sees(guard) == lockData[guard.lock]

BetweenCalls(t) == lockCall[t] = NoCall
IsFree(t, g) == lockGuard[t][g].kind = "none"
HasGuardOf(t, l) == \E g \in GuardVars : lockGuard[t][g].owns /\ lockGuard[t][g].lock = l
IsConstructed(l) == lockMutex[l].alive
FreeVar(t, g) == IsFree(t, g) /\ g = CHOOSE x \in GuardVars : IsFree(t, x)
MayAsk(t, l, g) == BetweenCalls(t) /\ IsConstructed(l) /\ FreeVar(t, g) /\ ~HasGuardOf(t, l)

(* t starts to wait in a call. *)
Ask(t, op, l, target) ==
    /\ lockCall' = [lockCall EXCEPT ![t] = [op |-> op, lock |-> l, target |-> target]]
    /\ UNCHANGED <<lockData, lockMutex, lockGuard>>

(* The guard is there, in the variable g. *)
Granted(t, g, kind, l) ==
    /\ lockGuard' = [lockGuard EXCEPT ![t][g] = NewGuard(kind, l)]
    /\ lockMutex' = [lockMutex EXCEPT ![l] =
                        IF kind = "write" THEN LockedExclusive(@) ELSE LockedShared(@)]
    /\ UNCHANGED lockData

(* read() *)
LockRead(t, l, g) == MayAsk(t, l, g) /\ Ask(t, "read", l, g)

ReadReturns(t) ==
    /\ lockCall[t].op = "read"
    /\ SharedFree(lockCall[t].lock)
    /\ Granted(t, lockCall[t].target, "read", lockCall[t].lock)
    /\ lockCall' = [lockCall EXCEPT ![t] = NoCall]

(* write() *)
LockWrite(t, l, g) == MayAsk(t, l, g) /\ Ask(t, "write", l, g)

WriteReturns(t) ==
    /\ lockCall[t].op = "write"
    /\ ExclusiveFree(lockCall[t].lock)
    /\ Granted(t, lockCall[t].target, "write", lockCall[t].lock)
    /\ lockCall' = [lockCall EXCEPT ![t] = NoCall]

(* try_read(): a guard at once, or an error. *)
LockTryRead(t, l, g) ==
    /\ MayAsk(t, l, g)
    /\ \/ SharedFree(l) /\ Granted(t, g, "read", l)
       \/ UNCHANGED <<lockData, lockMutex, lockGuard>>
    /\ UNCHANGED lockCall

(* try_write() *)
LockTryWrite(t, l, g) ==
    /\ MayAsk(t, l, g)
    /\ \/ ExclusiveFree(l) /\ Granted(t, g, "write", l)
       \/ UNCHANGED <<lockData, lockMutex, lockGuard>>
    /\ UNCHANGED lockCall

(* The copy constructor of a read guard locks the mutex once more. *)
GuardCopy(t, g, h) ==
    /\ BetweenCalls(t)
    /\ lockGuard[t][g].kind = "read"
    /\ lockGuard[t][g].owns
    /\ IsFree(t, h)
    /\ Ask(t, "copy", lockGuard[t][g].lock, h)

CopyReturns(t) ==
    /\ lockCall[t].op = "copy"
    /\ SharedFree(lockCall[t].lock)
    /\ Granted(t, lockCall[t].target, "read", lockCall[t].lock)
    /\ lockCall' = [lockCall EXCEPT ![t] = NoCall]

(* The move constructors of the guards: the source keeps its reference and *)
(* owns nothing.                                                           *)
GuardMove(t, g, h) ==
    /\ BetweenCalls(t)
    /\ ~IsFree(t, g)
    /\ IsFree(t, h)
    /\ lockGuard' = [lockGuard EXCEPT ![t] =
                        [@ EXCEPT ![h] = lockGuard[t][g], ![g].owns = FALSE, ![g].saw = Unset]]
    /\ UNCHANGED <<lockData, lockMutex, lockCall>>

(* write(value), operator=(value) and writing through write() or operator*. *)
GuardWrite(t, g, v) ==
    /\ BetweenCalls(t)
    /\ lockGuard[t][g].kind = "write"
    /\ lockGuard[t][g].owns
    /\ lockData' = [lockData EXCEPT ![lockGuard[t][g].lock] = v]
    /\ lockGuard' = [lockGuard EXCEPT ![t][g].saw = v]
    /\ UNCHANGED <<lockMutex, lockCall>>

(* The destructors: a lock that is owned is unlocked. *)
GuardDestroy(t, g) ==
    /\ BetweenCalls(t)
    /\ ~IsFree(t, g)
    /\ LET guard == lockGuard[t][g]
       IN  lockMutex' = IF guard.owns
                        THEN [lockMutex EXCEPT ![guard.lock] = Unlocked(@, guard.kind)]
                        ELSE lockMutex
    /\ lockGuard' = [lockGuard EXCEPT ![t][g] = NoGuard]
    /\ UNCHANGED <<lockData, lockCall>>

(* The move constructor waits for the mutex of its source, moves the value *)
(* out and unlocks; nobody knows of the lock under construction.           *)
LockMove(t, l, k) ==
    /\ BetweenCalls(t)
    /\ IsConstructed(l)
    /\ ~HasGuardOf(t, l)
    /\ ~IsConstructed(k)
    /\ \A u \in Threads : lockCall[u].target # k
    /\ Ask(t, "move", l, k)

MoveReturns(t) ==
    LET l == lockCall[t].lock
        k == lockCall[t].target
    IN  /\ lockCall[t].op = "move"
        /\ ExclusiveFree(l)
        /\ lockData' = [lockData EXCEPT ![k] = lockData[l], ![l] = Unset]
        /\ lockMutex' = [lockMutex EXCEPT ![k].alive = TRUE]
        /\ lockCall' = [lockCall EXCEPT ![t] = NoCall]
        /\ UNCHANGED lockGuard

(* The constructors from a value. *)
LockConstruct(l, v) ==
    /\ ~IsConstructed(l)
    /\ \A u \in Threads : lockCall[u].target # l
    /\ lockData' = [lockData EXCEPT ![l] = v]
    /\ lockMutex' = [lockMutex EXCEPT ![l].alive = TRUE]
    /\ UNCHANGED <<lockGuard, lockCall>>

(* The destructor, when nobody uses the lock any more. *)
LockDestroy(l) ==
    /\ IsConstructed(l)
    /\ \A t \in Threads :
        /\ lockCall[t].lock # l
        /\ \A g \in GuardVars : lockGuard[t][g].lock # l
    /\ lockData' = [lockData EXCEPT ![l] = Unset]
    /\ lockMutex' = [lockMutex EXCEPT ![l].alive = FALSE]
    /\ UNCHANGED <<lockGuard, lockCall>>

LockInit ==
    /\ lockData = [l \in Locks |-> Unset]
    /\ lockMutex = [l \in Locks |-> [alive |-> FALSE, exclusive |-> FALSE, shared |-> 0]]
    /\ lockGuard = [t \in Threads |-> [g \in GuardVars |-> NoGuard]]
    /\ lockCall = [t \in Threads |-> NoCall]

LockNext ==
    \/ \E t \in Threads, l \in Locks :
        \/ \E g \in GuardVars :
            \/ LockRead(t, l, g)
            \/ LockWrite(t, l, g)
            \/ LockTryRead(t, l, g)
            \/ LockTryWrite(t, l, g)
        \/ \E k \in Locks : LockMove(t, l, k)
    \/ \E t \in Threads :
        \/ ReadReturns(t)
        \/ WriteReturns(t)
        \/ CopyReturns(t)
        \/ MoveReturns(t)
    \/ \E t \in Threads, g \in GuardVars :
        \/ GuardDestroy(t, g)
        \/ \E h \in GuardVars : GuardCopy(t, g, h) \/ GuardMove(t, g, h)
        \/ \E v \in LockValues : GuardWrite(t, g, v)
    \/ \E l \in Locks : LockDestroy(l) \/ \E v \in LockValues : LockConstruct(l, v)

LockSpec == LockInit /\ [][LockNext]_lockVars

-----------------------------------------------------------------------------
(* What a guard refers to changes only through that guard, for as long as  *)
(* it lives: no writer beside a reader or another writer, no move of the   *)
(* value from under a guard, no mutex unlocked early or twice by guards    *)
(* that were copied and moved (ReadWriteLock.h:123, ScopedLockGuard.h:82,  *)
(* :243).                                                                  *)
GuardSeesStable ==
    \A t \in Threads, g \in GuardVars :
        lockGuard[t][g].owns => lockGuard[t][g].saw = Sees(lockGuard[t][g])
=============================================================================
