------------------------------ MODULE LockProofs ------------------------------
(***************************************************************************)
(* Theorems about ReadWriteLock and its guards, for any finite number of   *)
(* threads and of guards in each, and any set of locks; and about the      *)
(* synchronous loggers that keep their sinks in such a lock, for any       *)
(* number of sinks and entries.                                            *)
(***************************************************************************)
EXTENDS SyncLogger, FiniteSetTheorems, SequenceTheorems, TLAPS

Guards ==
    [kind : {"none", "read", "write"}, lock : Locks \cup {NoLock},
     owns : BOOLEAN, saw : LockValues \cup {Unset}]
GuardTables == [Threads -> [GuardVars -> Guards]]
Mutexes == [alive : BOOLEAN, exclusive : BOOLEAN, shared : Int]
LockCalls ==
    [op : {"none", "read", "write", "copy", "move"}, lock : Locks \cup {NoLock},
     target : Locks \cup GuardVars \cup {NoLock}]

LockTypeInv ==
    /\ lockData \in [Locks -> LockValues \cup {Unset}]
    /\ lockMutex \in [Locks -> Mutexes]
    /\ lockGuard \in GuardTables
    /\ lockCall \in [Threads -> LockCalls]

(* The guards of one kind that own the mutex of l. *)
OwnersIn(guards, kind, l) ==
    {x \in Threads \X GuardVars :
        /\ guards[x[1]][x[2]].owns
        /\ guards[x[1]][x[2]].kind = kind
        /\ guards[x[1]][x[2]].lock = l}

(* The mutex counts the read guards that own it, and is taken exclusively  *)
(* exactly while one write guard owns it; nobody owns the mutex of a lock  *)
(* that is not there.                                                      *)
MutexCounts ==
    \A l \in Locks :
        LET readers == OwnersIn(lockGuard, "read", l)
            writers == OwnersIn(lockGuard, "write", l)
        IN  /\ lockMutex[l].shared = Cardinality(readers)
            /\ IF lockMutex[l].exclusive
               THEN readers = {} /\ \E x \in Threads \X GuardVars : writers = {x}
               ELSE writers = {}
            /\ ~lockMutex[l].alive => readers = {} /\ writers = {}

(* What a call that waits relies on while it waits. *)
CallAgrees(t) ==
    LET call == lockCall[t]
    IN  /\ call.op # "none" => call.lock \in Locks /\ lockMutex[call.lock].alive
        /\ call.op \in {"read", "write", "copy"} =>
                call.target \in GuardVars /\ IsFree(t, call.target)
        /\ call.op = "copy" =>
                \E g \in GuardVars : <<t, g>> \in OwnersIn(lockGuard, "read", call.lock)
        /\ call.op = "move" =>
                /\ call.target \in Locks
                /\ ~lockMutex[call.target].alive
                /\ \A u \in Threads \ {t} :
                        lockCall[u].op = "move" => lockCall[u].target # call.target

CallsAgree == \A t \in Threads : CallAgrees(t)

(* A guard that owns a mutex is of a kind, and of a lock. *)
GuardsAgree ==
    \A t \in Threads, g \in GuardVars :
        lockGuard[t][g].owns =>
            lockGuard[t][g].kind \in {"read", "write"} /\ lockGuard[t][g].lock \in Locks

LockInv == LockTypeInv /\ MutexCounts /\ CallsAgree /\ GuardsAgree /\ GuardSeesStable

-----------------------------------------------------------------------------
(* Locking and unlocking give a mutex. *)
LEMMA MutexOperations ==
    ASSUME NEW m \in Mutexes
    PROVE  /\ LockedShared(m) \in Mutexes /\ LockedExclusive(m) \in Mutexes
           /\ Unlocked(m, "read") \in Mutexes /\ Unlocked(m, "write") \in Mutexes
<1>1. \A b \in BOOLEAN : [m EXCEPT !.exclusive = b] \in Mutexes
  BY DEF Mutexes
<1>2. \A i \in Int : [m EXCEPT !.shared = i] \in Mutexes
  BY DEF Mutexes
<1>3. m.shared + 1 \in Int /\ m.shared - 1 \in Int
  BY DEF Mutexes
<1> QED BY <1>1, <1>2, <1>3 DEF LockedShared, LockedExclusive, Unlocked

(* The owners are finitely many. *)
LEMMA OwnersFinite ==
    ASSUME NEW guards, NEW kind, NEW l
    PROVE  /\ IsFiniteSet(OwnersIn(guards, kind, l))
           /\ \A x : /\ x \notin OwnersIn(guards, kind, l) =>
                        Cardinality(OwnersIn(guards, kind, l) \cup {x})
                            = Cardinality(OwnersIn(guards, kind, l)) + 1
                     /\ x \in OwnersIn(guards, kind, l) =>
                        Cardinality(OwnersIn(guards, kind, l) \ {x})
                            = Cardinality(OwnersIn(guards, kind, l)) - 1
           /\ Cardinality(OwnersIn(guards, kind, l)) \in Nat
           /\ Cardinality(OwnersIn(guards, kind, l)) = 0 <=> OwnersIn(guards, kind, l) = {}
<1> DEFINE S == OwnersIn(guards, kind, l)
<1>1. IsFiniteSet(Threads \X GuardVars)
  BY LockAssumption, FS_Product
<1>2. IsFiniteSet(S)
  BY <1>1, FS_Subset DEF OwnersIn
<1> HIDE DEF S
<1>3. \A x : x \notin S => Cardinality(S \cup {x}) = Cardinality(S) + 1
  BY <1>2, FS_AddElement
<1>4. \A x : x \in S => Cardinality(S \ {x}) = Cardinality(S) - 1
  BY <1>2, FS_RemoveElement
<1>5. Cardinality(S) \in Nat /\ (Cardinality(S) = 0 <=> S = {})
  BY <1>2, FS_CardinalityType, FS_EmptySet
<1> QED BY <1>2, <1>3, <1>4, <1>5 DEF S

-----------------------------------------------------------------------------
LEMMA LockInvInit == LockInit => LockInv
<1> SUFFICES ASSUME LockInit PROVE LockInv
  OBVIOUS
<1> USE DEF LockInit
<1>1. LockTypeInv
  BY DEF LockTypeInv, Mutexes, GuardTables, Guards, LockCalls, NoGuard, NoCall
<1>2. \A kind, l : OwnersIn(lockGuard, kind, l) = {}
  BY DEF OwnersIn, NoGuard
<1>3. MutexCounts
  BY <1>2, FS_EmptySet DEF MutexCounts
<1>4. CallsAgree
  BY DEF CallsAgree, CallAgrees, NoCall
<1>5. GuardsAgree /\ GuardSeesStable
  BY DEF GuardsAgree, GuardSeesStable, NoGuard
<1> QED BY <1>1, <1>3, <1>4, <1>5 DEF LockInv

(* A call that starts to wait. *)
LEMMA AskStep ==
    ASSUME LockInv, NEW t \in Threads, BetweenCalls(t),
           NEW op \in {"read", "write", "copy", "move"}, NEW l \in Locks, lockMutex[l].alive,
           NEW target \in Locks \cup GuardVars, Ask(t, op, l, target),
           op \in {"read", "write", "copy"} => target \in GuardVars /\ IsFree(t, target),
           op = "copy" => \E g \in GuardVars : <<t, g>> \in OwnersIn(lockGuard, "read", l),
           op = "move" => /\ target \in Locks /\ ~lockMutex[target].alive
                          /\ \A u \in Threads : lockCall[u].target # target
    PROVE  LockInv'
<1> USE DEF LockInv
<1>1. UNCHANGED <<lockData, lockMutex, lockGuard>>
  BY DEF Ask
<1>2. lockCall' = [lockCall EXCEPT ![t] = [op |-> op, lock |-> l, target |-> target]]
  BY DEF Ask
<1>3. LockTypeInv'
  BY <1>1, <1>2 DEF LockTypeInv, LockCalls
<1>4. MutexCounts' /\ GuardsAgree' /\ GuardSeesStable'
  BY <1>1 DEF MutexCounts, GuardsAgree, GuardSeesStable, Sees
<1>5. CallsAgree'
  <2> SUFFICES ASSUME NEW v \in Threads PROVE CallAgrees(v)'
    BY DEF CallsAgree
  <2>1. \A u \in Threads : lockCall'[u] = IF u = t THEN [op |-> op, lock |-> l, target |-> target]
                                                  ELSE lockCall[u]
    BY <1>2 DEF LockTypeInv
  <2>2. CallAgrees(v)
    BY DEF CallsAgree
  <2>3. CASE v = t
    BY <1>1, <2>1, <2>3 DEF CallAgrees, IsFree
  <2>4. CASE v # t
    BY <1>1, <2>1, <2>2, <2>4 DEF CallAgrees, IsFree
  <2> QED BY <2>3, <2>4
<1> QED BY <1>3, <1>4, <1>5

(* The mutex is taken and the guard is there, whether the thread waited or *)
(* not.                                                                    *)
LEMMA GrantedStep ==
    ASSUME LockInv, NEW t \in Threads, NEW g \in GuardVars, IsFree(t, g),
           NEW kind \in {"read", "write"}, NEW l \in Locks, lockMutex[l].alive,
           kind = "read" => SharedFree(l), kind = "write" => ExclusiveFree(l),
           Granted(t, g, kind, l),
           \/ BetweenCalls(t) /\ UNCHANGED lockCall
           \/ lockCall' = [lockCall EXCEPT ![t] = NoCall]
    PROVE  LockInv'
<1> USE DEF LockInv
<1> DEFINE n == NewGuard(kind, l)
<1>1. lockGuard' = [lockGuard EXCEPT ![t][g] = n] /\ n \in Guards /\ lockData' = lockData
  BY DEF Granted, NewGuard, Guards, LockTypeInv
<1>2. n.owns /\ n.kind = kind /\ n.lock = l /\ n.saw = lockData[l]
  BY DEF NewGuard
<1>3. \A m \in Locks : lockMutex'[m] =
            IF m # l THEN lockMutex[m]
            ELSE IF kind = "write" THEN [lockMutex[l] EXCEPT !.exclusive = TRUE]
                                   ELSE [lockMutex[l] EXCEPT !.shared = @ + 1]
  BY DEF Granted, LockedExclusive, LockedShared, LockTypeInv
<1>4. \A v \in Threads : lockCall'[v] = IF v = t THEN NoCall ELSE lockCall[v]
  BY DEF LockTypeInv, BetweenCalls
<1> HIDE DEF n
<1>5. lockGuard \in GuardTables
  BY DEF LockTypeInv
<1>5a. /\ lockGuard' \in GuardTables
       /\ \A u \in Threads, h \in GuardVars :
            (lockGuard')[u][h] = IF u = t /\ h = g THEN n ELSE lockGuard[u][h]
  BY <1>1, <1>5 DEF GuardTables
<1>6. \A kd \in {"read", "write"}, m \in Locks : <<t, g>> \notin OwnersIn(lockGuard, kd, m)
  BY DEF OwnersIn, IsFree
<1>7. ASSUME NEW kd \in {"read", "write"}, NEW m \in Locks
      PROVE OwnersIn(lockGuard', kd, m) =
                IF kind = kd /\ l = m THEN OwnersIn(lockGuard, kd, m) \cup {<<t, g>>}
                                      ELSE OwnersIn(lockGuard, kd, m)
  <2>1. OwnersIn(lockGuard', kd, m) =
            IF n.owns /\ n.kind = kd /\ n.lock = m
            THEN OwnersIn(lockGuard, kd, m) \cup {<<t, g>>}
            ELSE OwnersIn(lockGuard, kd, m) \ {<<t, g>>}
    BY <1>5a DEF OwnersIn
  <2>2. <<t, g>> \notin OwnersIn(lockGuard, kd, m)
    BY <1>6
  <2> QED BY <1>2, <2>1, <2>2
<1>8. LockTypeInv'
  <2>1. lockMutex' \in [Locks -> Mutexes]
    BY MutexOperations DEF Granted, LockTypeInv
  <2>2. lockCall' \in [Threads -> LockCalls]
    BY DEF LockTypeInv, LockCalls, NoCall
  <2> QED BY <1>1, <1>5a, <2>1, <2>2 DEF LockTypeInv
<1>9. MutexCounts'
  <2> SUFFICES ASSUME NEW m \in Locks
               PROVE  LET readers == OwnersIn(lockGuard, "read", m)
                          writers == OwnersIn(lockGuard, "write", m)
                      IN  (/\ lockMutex[m].shared = Cardinality(readers)
                           /\ IF lockMutex[m].exclusive
                              THEN readers = {} /\ \E x \in Threads \X GuardVars : writers = {x}
                              ELSE writers = {}
                           /\ ~lockMutex[m].alive => readers = {} /\ writers = {})'
    BY DEF MutexCounts
  <2>1. lockMutex[m] \in Mutexes
    BY DEF LockTypeInv
  <2>2. CASE m # l
    BY <1>3, <1>7, <2>2 DEF MutexCounts
  <2>3. CASE m = l /\ kind = "read"
    <3>1. /\ OwnersIn(lockGuard', "read", m) = OwnersIn(lockGuard, "read", m) \cup {<<t, g>>}
          /\ OwnersIn(lockGuard', "write", m) = OwnersIn(lockGuard, "write", m)
      BY <1>7, <2>3
    <3>2. Cardinality(OwnersIn(lockGuard, "read", m) \cup {<<t, g>>})
            = Cardinality(OwnersIn(lockGuard, "read", m)) + 1
      BY <1>6, OwnersFinite
    <3>3. /\ lockMutex'[m].shared = lockMutex[m].shared + 1
          /\ lockMutex'[m].exclusive = lockMutex[m].exclusive
          /\ lockMutex'[m].alive
      BY <1>3, <2>1, <2>3 DEF Mutexes
    <3> QED BY <2>3, <3>1, <3>2, <3>3 DEF MutexCounts, SharedFree
  <2>4. CASE m = l /\ kind = "write"
    <3>1. /\ OwnersIn(lockGuard', "read", m) = OwnersIn(lockGuard, "read", m)
          /\ OwnersIn(lockGuard', "write", m) = OwnersIn(lockGuard, "write", m) \cup {<<t, g>>}
      BY <1>7, <2>4
    <3>2. /\ OwnersIn(lockGuard, "read", m) = {}
          /\ OwnersIn(lockGuard, "write", m) = {}
      BY <2>4, OwnersFinite DEF MutexCounts, ExclusiveFree
    <3>3. /\ lockMutex'[m].shared = lockMutex[m].shared
          /\ lockMutex'[m].exclusive
          /\ lockMutex'[m].alive
      BY <1>3, <2>1, <2>4 DEF Mutexes
    <3> QED BY <2>4, <3>1, <3>2, <3>3 DEF MutexCounts
  <2> QED BY <2>2, <2>3, <2>4
<1>10. CallsAgree'
  <2> SUFFICES ASSUME NEW v \in Threads PROVE CallAgrees(v)'
    BY DEF CallsAgree
  <2>1. \A m \in Locks : lockMutex'[m].alive = lockMutex[m].alive
    BY <1>3 DEF LockTypeInv, Mutexes
  <2>2. CallAgrees(v)
    BY DEF CallsAgree
  <2>3. CASE v = t
    BY <1>4, <2>3 DEF CallAgrees, NoCall
  <2>4. CASE v # t
    <3>1. \A h \in GuardVars : IsFree(v, h)' = IsFree(v, h)
      BY <1>5a, <2>4 DEF IsFree
    <3>2. lockCall'[v] = lockCall[v]
      BY <1>4, <2>4
    <3>3. \A u \in Threads : lockCall'[u].op = "move" => lockCall'[u] = lockCall[u]
      BY <1>4 DEF NoCall
    <3> HIDE DEF IsFree
    <3> QED BY <1>7, <2>1, <2>2, <3>1, <3>2, <3>3 DEF CallAgrees
  <2> QED BY <2>3, <2>4
<1>11. GuardsAgree'
  BY <1>2, <1>5a DEF GuardsAgree
<1>12. GuardSeesStable'
  BY <1>1, <1>2, <1>5a DEF GuardSeesStable, Sees
<1> QED BY <1>8, <1>9, <1>10, <1>11, <1>12

(* What the invariant says of one mutex and the guards that own it. *)
LEMMA OwnersKnown ==
    ASSUME LockInv, NEW t \in Threads, NEW g \in GuardVars, lockGuard[t][g].owns
    PROVE  LET guard == lockGuard[t][g]
           IN  /\ guard.kind \in {"read", "write"} /\ guard.lock \in Locks
               /\ <<t, g>> \in OwnersIn(lockGuard, guard.kind, guard.lock)
               /\ lockMutex[guard.lock].alive
               /\ guard.kind = "read" => /\ ~lockMutex[guard.lock].exclusive
                                         /\ lockMutex[guard.lock].shared # 0
                                         /\ OwnersIn(lockGuard, "write", guard.lock) = {}
               /\ guard.kind = "write" => /\ lockMutex[guard.lock].exclusive
                                          /\ OwnersIn(lockGuard, "read", guard.lock) = {}
                                          /\ OwnersIn(lockGuard, "write", guard.lock) = {<<t, g>>}
<1> DEFINE guard == lockGuard[t][g]
<1>1. guard.kind \in {"read", "write"} /\ guard.lock \in Locks
  BY DEF LockInv, GuardsAgree
<1>2. <<t, g>> \in OwnersIn(lockGuard, guard.kind, guard.lock)
  BY DEF OwnersIn
<1> HIDE DEF guard
<1>3. lockMutex[guard.lock].alive
  BY <1>1, <1>2 DEF LockInv, MutexCounts
<1>4. guard.kind = "read" => /\ ~lockMutex[guard.lock].exclusive
                             /\ lockMutex[guard.lock].shared # 0
                             /\ OwnersIn(lockGuard, "write", guard.lock) = {}
  BY <1>1, <1>2, OwnersFinite DEF LockInv, MutexCounts
<1>5. guard.kind = "write" => /\ lockMutex[guard.lock].exclusive
                              /\ OwnersIn(lockGuard, "read", guard.lock) = {}
                              /\ OwnersIn(lockGuard, "write", guard.lock) = {<<t, g>>}
  BY <1>1, <1>2 DEF LockInv, MutexCounts
<1> QED BY <1>1, <1>2, <1>3, <1>4, <1>5 DEF guard

(* A guard is destroyed, and unlocks what it owns. *)
LEMMA GuardDestroyStep ==
    ASSUME LockInv, NEW t \in Threads, NEW g \in GuardVars, GuardDestroy(t, g)
    PROVE  LockInv'
<1> USE DEF LockInv
<1> DEFINE guard == lockGuard[t][g]
<1>1. /\ lockGuard' = [lockGuard EXCEPT ![t][g] = NoGuard]
      /\ lockData' = lockData /\ lockCall' = lockCall /\ BetweenCalls(t)
      /\ lockMutex' = IF guard.owns
                      THEN [lockMutex EXCEPT ![guard.lock] = Unlocked(@, guard.kind)]
                      ELSE lockMutex
  BY DEF GuardDestroy
<1>2. lockGuard \in GuardTables /\ NoGuard \in Guards /\ guard \in Guards
  BY DEF LockTypeInv, GuardTables, NoGuard, Guards
<1>3. /\ lockGuard' \in GuardTables
      /\ \A u \in Threads, h \in GuardVars :
            (lockGuard')[u][h] = IF u = t /\ h = g THEN NoGuard ELSE lockGuard[u][h]
  BY <1>1, <1>2 DEF GuardTables
<1>4. \A kind \in {"read", "write"}, l \in Locks :
            OwnersIn(lockGuard', kind, l) = OwnersIn(lockGuard, kind, l) \ {<<t, g>>}
  BY <1>3 DEF OwnersIn, NoGuard
<1>5. \A kind \in {"read", "write"}, l \in Locks :
            <<t, g>> \in OwnersIn(lockGuard, kind, l) <=>
                guard.owns /\ guard.kind = kind /\ guard.lock = l
  BY DEF OwnersIn
<1>6. guard.owns => guard.kind \in {"read", "write"} /\ guard.lock \in Locks
  BY DEF GuardsAgree
<1> HIDE DEF guard
<1>7. lockMutex' \in [Locks -> Mutexes]
  BY <1>1, <1>6, MutexOperations DEF LockTypeInv
<1>8. LockTypeInv'
  BY <1>1, <1>3, <1>7 DEF LockTypeInv
<1>9. ASSUME NEW l \in Locks
      PROVE  LET mutex == lockMutex'[l]
             IN  /\ mutex.alive = lockMutex[l].alive
                 /\ mutex.exclusive = (lockMutex[l].exclusive
                        /\ ~(guard.owns /\ guard.kind = "write" /\ guard.lock = l))
                 /\ mutex.shared = IF guard.owns /\ guard.kind = "read" /\ guard.lock = l
                                   THEN lockMutex[l].shared - 1
                                   ELSE lockMutex[l].shared
  <2>1. lockMutex[l] \in Mutexes
    BY DEF LockTypeInv
  <2>2. lockMutex'[l] = IF guard.owns /\ guard.lock = l
                        THEN Unlocked(lockMutex[l], guard.kind)
                        ELSE lockMutex[l]
    BY <1>1, <1>6 DEF LockTypeInv
  <2> QED BY <1>6, <2>1, <2>2 DEF Unlocked, Mutexes
<1>10. MutexCounts'
  <2> SUFFICES ASSUME NEW l \in Locks
               PROVE  LET readers == OwnersIn(lockGuard, "read", l)
                          writers == OwnersIn(lockGuard, "write", l)
                      IN  (/\ lockMutex[l].shared = Cardinality(readers)
                           /\ IF lockMutex[l].exclusive
                              THEN readers = {} /\ \E x \in Threads \X GuardVars : writers = {x}
                              ELSE writers = {}
                           /\ ~lockMutex[l].alive => readers = {} /\ writers = {})'
    BY DEF MutexCounts
  <2>1. CASE guard.owns /\ guard.kind = "read" /\ guard.lock = l
    <3>1. /\ <<t, g>> \in OwnersIn(lockGuard, "read", l)
          /\ <<t, g>> \notin OwnersIn(lockGuard, "write", l)
      BY <1>5, <2>1
    <3>2. Cardinality(OwnersIn(lockGuard', "read", l)) = Cardinality(OwnersIn(lockGuard, "read", l)) - 1
      BY <1>4, <3>1, OwnersFinite
    <3>3. OwnersIn(lockGuard', "write", l) = OwnersIn(lockGuard, "write", l)
      BY <1>4, <3>1
    <3>4. ~lockMutex[l].exclusive /\ lockMutex[l].alive
      BY <3>1 DEF MutexCounts
    <3> QED BY <1>9, <2>1, <3>2, <3>3, <3>4 DEF MutexCounts
  <2>2. CASE guard.owns /\ guard.kind = "write" /\ guard.lock = l
    <3>1. /\ <<t, g>> \notin OwnersIn(lockGuard, "read", l)
          /\ <<t, g>> \in OwnersIn(lockGuard, "write", l)
      BY <1>5, <2>2
    <3>2. OwnersIn(lockGuard', "read", l) = OwnersIn(lockGuard, "read", l)
      BY <1>4, <3>1
    <3>3. OwnersIn(lockGuard, "write", l) = {<<t, g>>} /\ lockMutex[l].alive
      BY <3>1 DEF MutexCounts
    <3>4. OwnersIn(lockGuard', "write", l) = {}
      BY <1>4, <3>3
    <3> QED BY <1>9, <2>2, <3>2, <3>3, <3>4 DEF MutexCounts
  <2>3. CASE ~(guard.owns /\ guard.lock = l)
    <3>1. /\ OwnersIn(lockGuard', "read", l) = OwnersIn(lockGuard, "read", l)
          /\ OwnersIn(lockGuard', "write", l) = OwnersIn(lockGuard, "write", l)
      <4>1. /\ <<t, g>> \notin OwnersIn(lockGuard, "read", l)
            /\ <<t, g>> \notin OwnersIn(lockGuard, "write", l)
        BY <1>5, <2>3
      <4> QED BY <1>4, <4>1
    <3>2. lockMutex'[l] = lockMutex[l]
      BY <1>1, <1>6, <2>3 DEF LockTypeInv
    <3> QED BY <3>1, <3>2 DEF MutexCounts
  <2> QED BY <1>6, <2>1, <2>2, <2>3
<1>11. CallsAgree'
  <2> SUFFICES ASSUME NEW v \in Threads PROVE CallAgrees(v)'
    BY DEF CallsAgree
  <2>1. CallAgrees(v) /\ \A l \in Locks : lockMutex'[l].alive = lockMutex[l].alive
    BY <1>9 DEF CallsAgree
  <2>2. CASE v = t
    BY <1>1, <2>2 DEF CallAgrees, NoCall, BetweenCalls
  <2>3. CASE v # t
    <3>1. \A h \in GuardVars : IsFree(v, h)' = IsFree(v, h)
      BY <1>3, <2>3 DEF IsFree
    <3>2. \A l \in Locks, h \in GuardVars :
            <<v, h>> \in OwnersIn(lockGuard, "read", l) => <<v, h>> \in OwnersIn(lockGuard', "read", l)
      BY <1>4, <2>3
    <3> QED BY <1>1, <2>1, <3>1, <3>2 DEF CallAgrees
  <2> QED BY <2>2, <2>3
<1>12. GuardsAgree' /\ GuardSeesStable'
  BY <1>1, <1>3 DEF GuardsAgree, GuardSeesStable, Sees, NoGuard
<1> QED BY <1>8, <1>10, <1>11, <1>12

(* Ownership passes from one variable of a thread to another. *)
LEMMA OwnerReplaced ==
    ASSUME NEW S, IsFiniteSet(S), NEW x \in S, NEW y, y \notin S
    PROVE  Cardinality((S \ {x}) \cup {y}) = Cardinality(S)
<1>1. IsFiniteSet(S \ {x}) /\ Cardinality(S \ {x}) = Cardinality(S) - 1
  BY FS_RemoveElement
<1>2. Cardinality((S \ {x}) \cup {y}) = Cardinality(S \ {x}) + 1
  BY <1>1, FS_AddElement
<1>3. Cardinality(S) \in Nat
  BY FS_CardinalityType
<1> QED BY <1>1, <1>2, <1>3

LEMMA GuardMoveStep ==
    ASSUME LockInv, NEW t \in Threads, NEW g \in GuardVars, NEW h \in GuardVars, GuardMove(t, g, h)
    PROVE  LockInv'
<1> USE DEF LockInv
<1> DEFINE guard == lockGuard[t][g]
           left == [guard EXCEPT !.owns = FALSE, !.saw = Unset]
<1>1. /\ lockData' = lockData /\ lockMutex' = lockMutex /\ lockCall' = lockCall
      /\ BetweenCalls(t) /\ guard.kind # "none" /\ lockGuard[t][h].kind = "none" /\ g # h
  BY DEF GuardMove, IsFree
<1>2. lockGuard \in GuardTables /\ guard \in Guards
  BY DEF LockTypeInv, GuardTables
<1>3. left \in Guards /\ left.owns = FALSE /\ left.kind = guard.kind
  <2> HIDE DEF guard
  <2> QED BY <1>2 DEF Guards
<1> DEFINE row == [lockGuard[t] EXCEPT ![h] = guard, ![g].owns = FALSE, ![g].saw = Unset]
<1>4. lockGuard' = [lockGuard EXCEPT ![t] = row]
  BY DEF GuardMove
<1>5. /\ lockGuard' \in GuardTables
      /\ \A u \in Threads, i \in GuardVars :
            (lockGuard')[u][i] = IF u = t /\ i = h THEN guard
                                 ELSE IF u = t /\ i = g THEN left ELSE lockGuard[u][i]
  <2>1. lockGuard[t] \in [GuardVars -> Guards]
    BY <1>2 DEF GuardTables
  <2>2. row = [i \in GuardVars |-> IF i = g THEN left ELSE IF i = h THEN guard ELSE lockGuard[t][i]]
    BY <1>1, <2>1
  <2> HIDE DEF guard, left, row
  <2>3. /\ row \in [GuardVars -> Guards]
        /\ \A i \in GuardVars : row[i] = IF i = g THEN left ELSE IF i = h THEN guard ELSE lockGuard[t][i]
    BY <1>2, <1>3, <2>1, <2>2
  <2>4. lockGuard' \in GuardTables
    BY <1>2, <1>4, <2>3 DEF GuardTables
  <2>5. \A u \in Threads : lockGuard'[u] = IF u = t THEN row ELSE lockGuard[u]
    BY <1>2, <1>4 DEF GuardTables
  <2> QED BY <1>1, <2>3, <2>4, <2>5
<1> HIDE DEF guard, left, row
<1>6. LockTypeInv'
  BY <1>1, <1>5 DEF LockTypeInv
<1>7. ASSUME NEW kind \in {"read", "write"}, NEW l \in Locks
      PROVE  /\ \/ OwnersIn(lockGuard', kind, l) = OwnersIn(lockGuard, kind, l)
                \/ /\ <<t, g>> \in OwnersIn(lockGuard, kind, l)
                   /\ OwnersIn(lockGuard', kind, l) = (OwnersIn(lockGuard, kind, l) \ {<<t, g>>}) \cup {<<t, h>>}
             /\ <<t, h>> \notin OwnersIn(lockGuard, kind, l)
  <2>1. <<t, h>> \notin OwnersIn(lockGuard, kind, l)
    BY <1>1 DEF OwnersIn
  <2>2. CASE guard.owns /\ guard.kind = kind /\ guard.lock = l
    <3>1. <<t, g>> \in OwnersIn(lockGuard, kind, l)
      BY <2>2 DEF OwnersIn, guard
    <3>2. OwnersIn(lockGuard', kind, l) = (OwnersIn(lockGuard, kind, l) \ {<<t, g>>}) \cup {<<t, h>>}
      BY <1>1, <1>3, <1>5, <2>2 DEF OwnersIn
    <3> QED BY <2>1, <3>1, <3>2
  <2>3. CASE ~(guard.owns /\ guard.kind = kind /\ guard.lock = l)
    <3>1. lockGuard[t][g] = guard
      BY DEF guard
    <3>2. OwnersIn(lockGuard', kind, l) = OwnersIn(lockGuard, kind, l)
      BY <1>1, <1>3, <1>5, <2>3, <3>1 DEF OwnersIn
    <3> QED BY <2>1, <3>2
  <2> QED BY <2>2, <2>3
<1>8. ASSUME NEW kind \in {"read", "write"}, NEW l \in Locks
      PROVE  /\ Cardinality(OwnersIn(lockGuard', kind, l)) = Cardinality(OwnersIn(lockGuard, kind, l))
             /\ OwnersIn(lockGuard, kind, l) = {} => OwnersIn(lockGuard', kind, l) = {}
             /\ (\E x \in Threads \X GuardVars : OwnersIn(lockGuard, kind, l) = {x})
                    => \E x \in Threads \X GuardVars : OwnersIn(lockGuard', kind, l) = {x}
  <2>1. IsFiniteSet(OwnersIn(lockGuard, kind, l))
    BY OwnersFinite
  <2>2. CASE OwnersIn(lockGuard', kind, l) = OwnersIn(lockGuard, kind, l)
    BY <2>2
  <2>3. CASE /\ <<t, g>> \in OwnersIn(lockGuard, kind, l)
             /\ OwnersIn(lockGuard', kind, l) = (OwnersIn(lockGuard, kind, l) \ {<<t, g>>}) \cup {<<t, h>>}
    <3>1. Cardinality(OwnersIn(lockGuard', kind, l)) = Cardinality(OwnersIn(lockGuard, kind, l))
      BY <1>7, <2>1, <2>3, OwnerReplaced
    <3>2. <<t, h>> \in Threads \X GuardVars
      OBVIOUS
    <3>3. (\E x \in Threads \X GuardVars : OwnersIn(lockGuard, kind, l) = {x})
            => OwnersIn(lockGuard', kind, l) = {<<t, h>>}
      BY <2>3
    <3> QED BY <2>3, <3>1, <3>2, <3>3
  <2> QED BY <1>7, <2>2, <2>3
<1>9. MutexCounts'
  BY <1>1, <1>8 DEF MutexCounts
<1>10. CallsAgree'
  <2> SUFFICES ASSUME NEW v \in Threads PROVE CallAgrees(v)'
    BY DEF CallsAgree
  <2>1. CallAgrees(v)
    BY DEF CallsAgree
  <2>2. CASE v = t
    BY <1>1, <2>2 DEF CallAgrees, NoCall, BetweenCalls
  <2>3. CASE v # t
    <3>1. \A i \in GuardVars : IsFree(v, i)' = IsFree(v, i)
      BY <1>5, <2>3 DEF IsFree
    <3>2. \A l \in Locks, i \in GuardVars :
            <<v, i>> \in OwnersIn(lockGuard, "read", l) => <<v, i>> \in OwnersIn(lockGuard', "read", l)
      BY <1>7, <2>3
    <3> QED BY <1>1, <2>1, <3>1, <3>2 DEF CallAgrees
  <2> QED BY <2>2, <2>3
<1>11. guard.owns => guard.kind \in {"read", "write"} /\ guard.lock \in Locks /\ guard.saw = lockData[guard.lock]
  BY DEF guard, GuardsAgree, GuardSeesStable, Sees
<1>12. GuardsAgree'
  BY <1>3, <1>5, <1>11 DEF GuardsAgree
<1>13. GuardSeesStable'
  <2> SUFFICES ASSUME NEW u \in Threads, NEW i \in GuardVars, (lockGuard[u][i].owns)'
               PROVE  (lockGuard[u][i].saw = lockData[lockGuard[u][i].lock])'
    BY DEF GuardSeesStable, Sees
  <2>1. \/ lockGuard'[u][i] = guard
        \/ lockGuard'[u][i] = lockGuard[u][i]
    BY <1>3, <1>5
  <2> QED BY <1>1, <1>11, <2>1 DEF GuardSeesStable, Sees
<1> QED BY <1>6, <1>9, <1>10, <1>12, <1>13

(* A write guard writes: it is the only owner of its mutex. *)
LEMMA GuardWriteStep ==
    ASSUME LockInv, NEW t \in Threads, NEW g \in GuardVars, NEW v \in LockValues, GuardWrite(t, g, v)
    PROVE  LockInv'
<1> USE DEF LockInv
<1> DEFINE guard == lockGuard[t][g]
           n == [guard EXCEPT !.saw = v]
<1>1. guard.kind = "write" /\ guard.owns /\ UNCHANGED <<lockMutex, lockCall>>
  BY DEF GuardWrite
<1>2. /\ guard.lock \in Locks
      /\ OwnersIn(lockGuard, "read", guard.lock) = {}
      /\ OwnersIn(lockGuard, "write", guard.lock) = {<<t, g>>}
  BY <1>1, OwnersKnown
<1>3. lockGuard \in GuardTables /\ guard \in Guards
  BY DEF LockTypeInv, GuardTables
<1>4. n \in Guards /\ n.owns = guard.owns /\ n.kind = guard.kind /\ n.lock = guard.lock /\ n.saw = v
  <2> HIDE DEF guard
  <2> QED BY <1>3 DEF Guards
<1>5. lockGuard' = [lockGuard EXCEPT ![t][g] = n]
  BY DEF GuardWrite
<1>6. \A l \in Locks : lockData'[l] = IF l = guard.lock THEN v ELSE lockData[l]
  BY DEF GuardWrite, LockTypeInv
<1>7. lockData' \in [Locks -> LockValues \cup {Unset}]
  BY DEF GuardWrite, LockTypeInv
<1>g. guard = lockGuard[t][g]
  OBVIOUS
<1> HIDE DEF guard, n
<1>8. /\ lockGuard' \in GuardTables
      /\ \A u \in Threads, h \in GuardVars :
            (lockGuard')[u][h] = IF u = t /\ h = g THEN n ELSE lockGuard[u][h]
  BY <1>3, <1>4, <1>5 DEF GuardTables
<1>9. LockTypeInv'
  BY <1>1, <1>7, <1>8 DEF LockTypeInv
<1>10. \A u \in Threads, h \in GuardVars :
            /\ (lockGuard')[u][h].owns = lockGuard[u][h].owns
            /\ (lockGuard')[u][h].kind = lockGuard[u][h].kind
            /\ (lockGuard')[u][h].lock = lockGuard[u][h].lock
  BY <1>4, <1>8, <1>g
<1>11. \A kind, l : OwnersIn(lockGuard', kind, l) = OwnersIn(lockGuard, kind, l)
  BY <1>10 DEF OwnersIn
<1>12. MutexCounts'
  BY <1>1, <1>11 DEF MutexCounts
<1>13. CallsAgree'
  <2>1. \A u \in Threads, h \in GuardVars : IsFree(u, h)' = IsFree(u, h)
    BY <1>10 DEF IsFree
  <2> QED BY <1>1, <1>11, <2>1 DEF CallsAgree, CallAgrees
<1>14. GuardsAgree'
  BY <1>10 DEF GuardsAgree
<1>15. GuardSeesStable'
  <2> SUFFICES ASSUME NEW u \in Threads, NEW h \in GuardVars, (lockGuard[u][h].owns)'
               PROVE  (lockGuard[u][h].saw = lockData[lockGuard[u][h].lock])'
    BY DEF GuardSeesStable, Sees
  <2>1. CASE u = t /\ h = g
    BY <1>2, <1>4, <1>6, <1>8, <2>1
  <2>2. CASE ~(u = t /\ h = g)
    <3>1. lockGuard'[u][h] = lockGuard[u][h]
      BY <1>8, <2>2
    <3>2. lockGuard[u][h].lock \in Locks /\ lockGuard[u][h].kind \in {"read", "write"}
      BY <3>1 DEF GuardsAgree
    <3>3. <<u, h>> \in OwnersIn(lockGuard, lockGuard[u][h].kind, lockGuard[u][h].lock)
      BY <3>1 DEF OwnersIn
    <3>4. lockGuard[u][h].lock # guard.lock
      BY <1>2, <2>2, <3>2, <3>3
    <3> QED BY <1>6, <3>1, <3>2, <3>4 DEF GuardSeesStable, Sees
  <2> QED BY <2>1, <2>2
<1> QED BY <1>9, <1>12, <1>13, <1>14, <1>15

(* A lock is constructed, destroyed or moved from: none of its guards owns *)
(* it, and no call relies on what changes.                                 *)
LEMMA LockStep ==
    ASSUME LockInv, UNCHANGED lockGuard,
           lockData' \in [Locks -> LockValues \cup {Unset}],
           lockMutex' \in [Locks -> Mutexes],
           \A l \in Locks : /\ lockMutex'[l].shared = lockMutex[l].shared
                            /\ lockMutex'[l].exclusive = lockMutex[l].exclusive,
           \A l \in Locks :
                \/ lockMutex'[l].alive = lockMutex[l].alive /\ lockData'[l] = lockData[l]
                \/ /\ OwnersIn(lockGuard, "read", l) = {}
                   /\ OwnersIn(lockGuard, "write", l) = {},
           CallsAgree', lockCall' \in [Threads -> LockCalls]
    PROVE  LockInv'
<1> USE DEF LockInv
<1>1. LockTypeInv'
  BY DEF LockTypeInv
<1>2. MutexCounts'
  BY DEF MutexCounts
<1>3. GuardsAgree'
  BY DEF GuardsAgree
<1>4. GuardSeesStable'
  <2> SUFFICES ASSUME NEW u \in Threads, NEW h \in GuardVars, lockGuard[u][h].owns
               PROVE  lockGuard[u][h].saw = lockData'[lockGuard[u][h].lock]
    BY DEF GuardSeesStable, Sees
  <2>1. /\ lockGuard[u][h].lock \in Locks /\ lockGuard[u][h].kind \in {"read", "write"}
        /\ <<u, h>> \in OwnersIn(lockGuard, lockGuard[u][h].kind, lockGuard[u][h].lock)
    BY OwnersKnown
  <2>2. lockData'[lockGuard[u][h].lock] = lockData[lockGuard[u][h].lock]
    BY <2>1
  <2> QED BY <2>2 DEF GuardSeesStable, Sees
<1> QED BY <1>1, <1>2, <1>3, <1>4

LEMMA MoveReturnsStep ==
    ASSUME LockInv, NEW t \in Threads, MoveReturns(t)
    PROVE  LockInv'
<1> DEFINE l == lockCall[t].lock
           k == lockCall[t].target
<1>1. /\ l \in Locks /\ lockMutex[l].alive
      /\ k \in Locks /\ ~lockMutex[k].alive
      /\ \A u \in Threads \ {t} : lockCall[u].op = "move" => lockCall[u].target # k
  BY DEF LockInv, CallsAgree, CallAgrees, MoveReturns
<1>2. /\ lockData' = [lockData EXCEPT ![k] = lockData[l], ![l] = Unset]
      /\ lockMutex' = [lockMutex EXCEPT ![k].alive = TRUE]
      /\ lockCall' = [lockCall EXCEPT ![t] = NoCall]
      /\ UNCHANGED lockGuard
      /\ ExclusiveFree(l)
  BY DEF MoveReturns
<1> HIDE DEF l, k
<1>3. lockData' \in [Locks -> LockValues \cup {Unset}]
  BY <1>1, <1>2 DEF LockInv, LockTypeInv
<1>4. \A m \in Locks \ {k, l} : lockData'[m] = lockData[m]
  BY <1>1, <1>2 DEF LockInv, LockTypeInv
<1>5. lockMutex[k] \in Mutexes
  BY <1>1 DEF LockInv, LockTypeInv
<1>6. /\ [lockMutex[k] EXCEPT !.alive = TRUE] \in Mutexes
      /\ [lockMutex[k] EXCEPT !.alive = TRUE].alive
      /\ [lockMutex[k] EXCEPT !.alive = TRUE].shared = lockMutex[k].shared
      /\ [lockMutex[k] EXCEPT !.alive = TRUE].exclusive = lockMutex[k].exclusive
  BY <1>5 DEF Mutexes
<1>7. /\ lockMutex' \in [Locks -> Mutexes]
      /\ \A m \in Locks : lockMutex'[m] = IF m = k THEN [lockMutex[k] EXCEPT !.alive = TRUE] ELSE lockMutex[m]
  BY <1>2, <1>6 DEF LockInv, LockTypeInv
<1>8. lockCall' \in [Threads -> LockCalls]
      /\ \A u \in Threads : lockCall'[u] = IF u = t THEN NoCall ELSE lockCall[u]
  BY <1>2 DEF LockInv, LockTypeInv, LockCalls, NoCall
<1>9. \A m \in {k, l} : OwnersIn(lockGuard, "read", m) = {} /\ OwnersIn(lockGuard, "write", m) = {}
  BY <1>1, <1>2, OwnersFinite DEF LockInv, MutexCounts, ExclusiveFree
<1>10. CallsAgree'
  <2> SUFFICES ASSUME NEW v \in Threads PROVE CallAgrees(v)'
    BY DEF CallsAgree
  <2>1. CallAgrees(v)
    BY DEF LockInv, CallsAgree
  <2>2. CASE v = t
    BY <1>8, <2>2 DEF CallAgrees, NoCall
  <2>3. CASE v # t
    <3>1. lockCall'[v] = lockCall[v]
      BY <1>8, <2>3
    <3>2. \A m \in Locks \ {k} : lockMutex'[m].alive = lockMutex[m].alive
      BY <1>7
    <3>3. \A m \in Locks : lockMutex[m].alive => lockMutex'[m].alive
      BY <1>6, <1>7
    <3>4. lockCall[v].op = "move" => lockCall[v].target # k
      BY <1>1, <2>3
    <3>5. \A u \in Threads : lockCall'[u].op = "move" => lockCall'[u] = lockCall[u]
      BY <1>8 DEF NoCall
    <3>6. \A i \in GuardVars : IsFree(v, i)' = IsFree(v, i)
      BY <1>2 DEF IsFree
    <3> QED BY SMTT(30), <1>2, <2>1, <3>1, <3>2, <3>3, <3>4, <3>5, <3>6 DEF CallAgrees
  <2> QED BY <2>2, <2>3
<1>11. \A m \in Locks : /\ lockMutex'[m].shared = lockMutex[m].shared
                        /\ lockMutex'[m].exclusive = lockMutex[m].exclusive
  BY <1>6, <1>7
<1>12. \A m \in Locks :
        \/ lockMutex'[m].alive = lockMutex[m].alive /\ lockData'[m] = lockData[m]
        \/ OwnersIn(lockGuard, "read", m) = {} /\ OwnersIn(lockGuard, "write", m) = {}
  BY <1>4, <1>7, <1>9
<1> QED BY <1>2, <1>3, <1>7, <1>8, <1>10, <1>11, <1>12, LockStep

LEMMA ConstructOrDestroyStep ==
    ASSUME LockInv, NEW l \in Locks,
           LockDestroy(l) \/ \E v \in LockValues : LockConstruct(l, v)
    PROVE  LockInv'
<1>1. PICK v \in LockValues \cup {Unset}, b \in BOOLEAN :
        /\ lockData' = [lockData EXCEPT ![l] = v]
        /\ lockMutex' = [lockMutex EXCEPT ![l].alive = b]
        /\ UNCHANGED <<lockGuard, lockCall>>
        /\ b => ~lockMutex[l].alive /\ \A u \in Threads : lockCall[u].target # l
        /\ ~b => /\ \A u \in Threads : lockCall[u].lock # l
                 /\ \A u \in Threads, g \in GuardVars : lockGuard[u][g].lock # l
  BY DEF LockDestroy, LockConstruct, IsConstructed
<1>2. lockMutex[l] \in Mutexes
  BY DEF LockInv, LockTypeInv
<1>3. /\ [lockMutex[l] EXCEPT !.alive = b] \in Mutexes
      /\ [lockMutex[l] EXCEPT !.alive = b].alive = b
      /\ [lockMutex[l] EXCEPT !.alive = b].shared = lockMutex[l].shared
      /\ [lockMutex[l] EXCEPT !.alive = b].exclusive = lockMutex[l].exclusive
  BY <1>2 DEF Mutexes
<1>4. /\ lockMutex' \in [Locks -> Mutexes]
      /\ \A m \in Locks : lockMutex'[m] = IF m = l THEN [lockMutex[l] EXCEPT !.alive = b] ELSE lockMutex[m]
  BY <1>1, <1>3 DEF LockInv, LockTypeInv
<1>5. /\ lockData' \in [Locks -> LockValues \cup {Unset}]
      /\ \A m \in Locks \ {l} : lockData'[m] = lockData[m]
  BY <1>1 DEF LockInv, LockTypeInv
<1>6. OwnersIn(lockGuard, "read", l) = {} /\ OwnersIn(lockGuard, "write", l) = {}
  <2>1. CASE b
    BY <1>1, <2>1 DEF LockInv, MutexCounts
  <2>2. CASE ~b
    BY <1>1, <2>2 DEF OwnersIn
  <2> QED BY <2>1, <2>2
<1>7. CallsAgree'
  <2> SUFFICES ASSUME NEW w \in Threads PROVE CallAgrees(w)'
    BY DEF CallsAgree
  <2>1. CallAgrees(w)
    BY DEF LockInv, CallsAgree
  <2>2. \A m \in Locks \ {l} : lockMutex'[m].alive = lockMutex[m].alive
    BY <1>4
  <2>3. lockMutex'[l].alive = b
    BY <1>3, <1>4
  <2>4. \A i \in GuardVars : IsFree(w, i)' = IsFree(w, i)
    BY <1>1 DEF IsFree
  <2>5. CASE b
    BY <1>1, <2>1, <2>2, <2>3, <2>4, <2>5 DEF CallAgrees
  <2>6. CASE ~b
    BY <1>1, <2>1, <2>2, <2>3, <2>4, <2>6 DEF CallAgrees
  <2> QED BY <2>5, <2>6
<1>8. lockCall' \in [Threads -> LockCalls]
  BY <1>1 DEF LockInv, LockTypeInv
<1>9. \A m \in Locks : /\ lockMutex'[m].shared = lockMutex[m].shared
                       /\ lockMutex'[m].exclusive = lockMutex[m].exclusive
  BY <1>3, <1>4
<1>10. \A m \in Locks :
        \/ lockMutex'[m].alive = lockMutex[m].alive /\ lockData'[m] = lockData[m]
        \/ OwnersIn(lockGuard, "read", m) = {} /\ OwnersIn(lockGuard, "write", m) = {}
  BY <1>4, <1>5, <1>6
<1> QED BY <1>1, <1>4, <1>5, <1>7, <1>8, <1>9, <1>10, LockStep

LEMMA LockInvStutter == LockInv /\ UNCHANGED lockVars => LockInv'
<1> SUFFICES ASSUME LockInv, UNCHANGED lockVars PROVE LockInv'
  OBVIOUS
<1> USE DEF LockInv, lockVars
<1>1. LockTypeInv' /\ MutexCounts'
  BY DEF LockTypeInv, MutexCounts
<1>2. CallsAgree'
  BY DEF CallsAgree, CallAgrees, IsFree
<1>3. GuardsAgree' /\ GuardSeesStable'
  BY DEF GuardsAgree, GuardSeesStable, Sees
<1> QED BY <1>1, <1>2, <1>3

(* The invariant is inductive: one case for each operation. *)
LEMMA LockInvStep == LockInv /\ [LockNext]_lockVars => LockInv'
<1> SUFFICES ASSUME LockInv, [LockNext]_lockVars PROVE LockInv'
  OBVIOUS
<1>0. \A t \in Threads : CallAgrees(t)
  BY DEF LockInv, CallsAgree
<1>1. ASSUME NEW t \in Threads, NEW l \in Locks, NEW g \in GuardVars,
             LockRead(t, l, g) \/ LockWrite(t, l, g)
      PROVE LockInv'
  BY <1>1, AskStep DEF LockRead, LockWrite, MayAsk, FreeVar, IsConstructed
<1>2. ASSUME NEW t \in Threads, NEW l \in Locks, NEW g \in GuardVars,
             LockTryRead(t, l, g) \/ LockTryWrite(t, l, g)
      PROVE LockInv'
  <2>1. lockMutex[l].alive /\ IsFree(t, g) /\ BetweenCalls(t) /\ UNCHANGED lockCall
    BY <1>2 DEF LockTryRead, LockTryWrite, MayAsk, FreeVar, IsConstructed
  <2>2. CASE SharedFree(l) /\ Granted(t, g, "read", l)
    BY <2>1, <2>2, GrantedStep
  <2>3. CASE ExclusiveFree(l) /\ Granted(t, g, "write", l)
    BY <2>1, <2>3, GrantedStep
  <2>4. CASE UNCHANGED lockVars
    BY <2>4, LockInvStutter
  <2> QED BY <1>2, <2>1, <2>2, <2>3, <2>4 DEF LockTryRead, LockTryWrite, lockVars
<1>3. ASSUME NEW t \in Threads, NEW l \in Locks, NEW k \in Locks, LockMove(t, l, k)
      PROVE LockInv'
  BY <1>3, AskStep DEF LockMove, IsConstructed
<1>4. ASSUME NEW t \in Threads, ReadReturns(t) \/ CopyReturns(t) \/ WriteReturns(t)
      PROVE LockInv'
  <2>1. /\ lockCall[t].lock \in Locks /\ lockMutex[lockCall[t].lock].alive
        /\ lockCall[t].target \in GuardVars /\ IsFree(t, lockCall[t].target)
        /\ lockCall' = [lockCall EXCEPT ![t] = NoCall]
    BY <1>0, <1>4 DEF CallAgrees, ReadReturns, CopyReturns, WriteReturns
  <2>2. CASE ReadReturns(t) \/ CopyReturns(t)
    BY <2>1, <2>2, GrantedStep DEF ReadReturns, CopyReturns
  <2>3. CASE WriteReturns(t)
    BY <2>1, <2>3, GrantedStep DEF WriteReturns
  <2> QED BY <1>4, <2>2, <2>3
<1>5. ASSUME NEW t \in Threads, MoveReturns(t) PROVE LockInv'
  BY <1>5, MoveReturnsStep
<1>6. ASSUME NEW t \in Threads, NEW g \in GuardVars, NEW h \in GuardVars, GuardCopy(t, g, h)
      PROVE LockInv'
  <2>1. lockGuard[t][g].owns /\ lockGuard[t][g].kind = "read" /\ IsFree(t, h) /\ BetweenCalls(t)
        /\ Ask(t, "copy", lockGuard[t][g].lock, h)
    BY <1>6 DEF GuardCopy
  <2>2. /\ lockGuard[t][g].lock \in Locks /\ lockMutex[lockGuard[t][g].lock].alive
        /\ <<t, g>> \in OwnersIn(lockGuard, "read", lockGuard[t][g].lock)
    BY <2>1, OwnersKnown
  <2> QED BY <2>1, <2>2, AskStep
<1>7. ASSUME NEW t \in Threads, NEW g \in GuardVars, NEW h \in GuardVars, GuardMove(t, g, h)
      PROVE LockInv'
  BY <1>7, GuardMoveStep
<1>8. ASSUME NEW t \in Threads, NEW g \in GuardVars, NEW v \in LockValues, GuardWrite(t, g, v)
      PROVE LockInv'
  BY <1>8, GuardWriteStep
<1>9. ASSUME NEW t \in Threads, NEW g \in GuardVars, GuardDestroy(t, g) PROVE LockInv'
  BY <1>9, GuardDestroyStep
<1>10. ASSUME NEW l \in Locks, LockDestroy(l) \/ \E v \in LockValues : LockConstruct(l, v)
       PROVE LockInv'
  BY <1>10, ConstructOrDestroyStep
<1>11. CASE UNCHANGED lockVars
  BY <1>11, LockInvStutter
<1> QED
  BY <1>1, <1>2, <1>3, <1>4, <1>5, <1>6, <1>7, <1>8, <1>9, <1>10, <1>11 DEF LockNext

-----------------------------------------------------------------------------
(* The mutex of every lock agrees with the guards that own it, whatever    *)
(* the threads do with their guards: the count of readers is the number of *)
(* read guards, and there is a writer exactly while one write guard owns   *)
(* the mutex, alone (ReadWriteLock.h:123, ScopedLockGuard.h:82, :243).     *)
THEOREM MutexAgreesWithGuards == LockSpec => []MutexCounts
<1>1. LockInv => MutexCounts
  BY DEF LockInv
<1> QED BY <1>1, LockInvInit, LockInvStep, PTL DEF LockSpec

(* GuardSeesStable for any number of threads, locks and guards: what a     *)
(* guard refers to changes only through it.                                *)
THEOREM GuardsSeeStable == LockSpec => []GuardSeesStable
<1>1. LockInv => GuardSeesStable
  BY DEF LockInv
<1> QED BY <1>1, LockInvInit, LockInvStep, PTL DEF LockSpec

-----------------------------------------------------------------------------
(* The synchronous loggers *)

Entries == Threads \X Nat \X Levels
LogSteps ==
    {NotLogging} \cup [at : {"lock", "sinks"}, logger : Locks, entry : Entries, next : Nat \ {0}]

LogTypes ==
    /\ logPolicy \in {"SingleThreaded", "MultiThreaded"}
    /\ globalLog \in Locks \cup {NoLock}
    /\ logStep \in [Threads -> LogSteps]
    /\ logCount \in [Threads -> Nat]
    /\ sinkOut \in [Locks -> [1 .. NumSinks -> Seq(Entries)]]
    /\ logTaken \in [Locks -> Seq(Entries)]

AtSinks(t) == logStep[t].at = "sinks"

(* Where a thread is in log() tells which call it waits in and which guard *)
(* it has; without a lock, it is the only thread that ever logged.         *)
LogLockSide(t) ==
    /\ IF logStep[t].at = "lock"
       THEN /\ logPolicy = "MultiThreaded" /\ logStep[t].next = 1
            /\ lockCall[t] = [op |-> "write", lock |-> logStep[t].logger, target |-> TheGuard]
       ELSE lockCall[t] = NoCall
    /\ \A g \in GuardVars :
        lockGuard[t][g].owns => logPolicy = "MultiThreaded" /\ AtSinks(t) /\ g = TheGuard
    /\ AtSinks(t) =>
        IF logPolicy = "MultiThreaded"
        THEN <<t, TheGuard>> \in OwnersIn(lockGuard, "write", logStep[t].logger)
        ELSE logCount[t] > 0

LogLockSides == \A t \in Threads : LogLockSide(t)

(* No two threads are between the sinks of one logger. *)
OneAtSinks ==
    \A t, u \in Threads :
        AtSinks(t) /\ AtSinks(u) /\ logStep[t].logger = logStep[u].logger => t = u

(* A sink has printed all that is due, or all but the entry of the thread  *)
(* that has yet to reach it.                                               *)
OutputOf(l, k) ==
    /\ (\A t \in Threads : ~Owes(t, l, k)) => IsOutput(sinkOut[l][k], logTaken[l], k)
    /\ \A t \in Threads :
        Owes(t, l, k) => IsOutput(Append(sinkOut[l][k], logStep[t].entry), logTaken[l], k)

OutputsDue == \A l \in Locks, k \in 1 .. NumSinks : OutputOf(l, k)

SyncLogInv == LockInv /\ LogTypes /\ LogLockSides /\ OneAtSinks /\ OutputsDue

-----------------------------------------------------------------------------
(* The places of the entries that are due at the k-th sink. *)
DueAt(taken, k) == {i \in 1 .. Len(taken) : Accepts(k, taken[i])}

LEMMA DueFinite ==
    ASSUME NEW taken \in Seq(Entries), NEW k
    PROVE  /\ IsFiniteSet(DueAt(taken, k)) /\ Cardinality(DueAt(taken, k)) \in Nat
           /\ \A i \in DueAt(taken, k) :
                Cardinality({j \in DueAt(taken, k) : j <= i}) \in 1 .. Cardinality(DueAt(taken, k))
<1> DEFINE due == DueAt(taken, k)
<1>1. IsFiniteSet(1 .. Len(taken)) /\ due \subseteq 1 .. Len(taken)
  BY FS_Interval DEF DueAt
<1>2. IsFiniteSet(due) /\ Cardinality(due) \in Nat
  BY <1>1, FS_Subset, FS_CardinalityType
<1>3. due \subseteq Int
  BY <1>1
<1> HIDE DEF due
<1>4. ASSUME NEW i \in due
      PROVE  Cardinality({j \in due : j <= i}) \in 1 .. Cardinality(due)
  <2> DEFINE upto == {j \in due : j <= i}
  <2>1. upto \subseteq due /\ i \in upto
    BY <1>3
  <2> HIDE DEF upto
  <2>2. IsFiniteSet(upto) /\ Cardinality(upto) \in Nat /\ Cardinality(upto) <= Cardinality(due)
    BY <1>2, <2>1, FS_Subset, FS_CardinalityType
  <2>3. Cardinality(upto) # 0
    BY <2>1, <2>2, FS_EmptySet
  <2> QED BY <1>2, <2>2, <2>3 DEF upto
<1> QED BY <1>2, <1>4 DEF due

(* A sink ignores an entry below its level. *)
LEMMA OutputSkips ==
    ASSUME NEW taken \in Seq(Entries), NEW out, NEW k, NEW e \in Entries,
           IsOutput(out, taken, k), ~Accepts(k, e)
    PROVE  IsOutput(out, Append(taken, e), k)
<1>1. /\ Len(Append(taken, e)) = Len(taken) + 1 /\ Append(taken, e)[Len(taken) + 1] = e
      /\ \A i \in 1 .. Len(taken) : Append(taken, e)[i] = taken[i]
      /\ Len(taken) \in Nat
  BY AppendProperties, LenProperties
<1>2. DueAt(Append(taken, e), k) = DueAt(taken, k)
  <2>1. \A i : i \in 1 .. (Len(taken) + 1) <=> i \in 1 .. Len(taken) \/ i = Len(taken) + 1
    BY <1>1
  <2> QED BY <1>1, <2>1 DEF DueAt
<1>3. \A i \in DueAt(taken, k) : Append(taken, e)[i] = taken[i]
  BY <1>1 DEF DueAt
<1> QED BY <1>2, <1>3 DEF IsOutput, DueAt

(* It prints one that is due behind what it printed before. *)
LEMMA OutputExtends ==
    ASSUME NEW taken \in Seq(Entries), NEW out \in Seq(Entries), NEW k, NEW e \in Entries,
           IsOutput(out, taken, k), Accepts(k, e)
    PROVE  IsOutput(Append(out, e), Append(taken, e), k)
<1> DEFINE due == DueAt(taken, k)
           more == DueAt(Append(taken, e), k)
           n == Len(taken) + 1
<1>1. /\ Len(Append(taken, e)) = n /\ Append(taken, e)[n] = e
      /\ \A i \in 1 .. Len(taken) : Append(taken, e)[i] = taken[i]
      /\ Len(taken) \in Nat /\ n \in Nat
  BY AppendProperties, LenProperties
<1>2. /\ Len(Append(out, e)) = Len(out) + 1 /\ Append(out, e)[Len(out) + 1] = e
      /\ \A i \in 1 .. Len(out) : Append(out, e)[i] = out[i]
      /\ Len(out) \in Nat
  BY AppendProperties, LenProperties
<1>3. Len(out) = Cardinality(due) /\ \A i \in due : out[Cardinality({j \in due : j <= i})] = taken[i]
  BY DEF IsOutput, DueAt
<1>4. IsFiniteSet(due) /\ \A i \in due : Cardinality({j \in due : j <= i}) \in 1 .. Cardinality(due)
  BY DueFinite
<1>5. more = due \cup {n}
  <2>1. \A i : i \in 1 .. n <=> i \in 1 .. Len(taken) \/ i = n
    BY <1>1
  <2> QED BY <1>1, <2>1 DEF DueAt
<1>6. n \notin due /\ \A i \in due : i \in 1 .. Len(taken) /\ i < n /\ i \in Int
  BY <1>1 DEF DueAt
<1> HIDE DEF due, more, n
<1>7. Cardinality(more) = Cardinality(due) + 1
  BY <1>4, <1>5, <1>6, FS_AddElement
<1>8. ASSUME NEW i \in more
      PROVE  Append(out, e)[Cardinality({j \in more : j <= i})] = Append(taken, e)[i]
  <2>1. CASE i = n
    <3>1. {j \in more : j <= i} = more
      <4>1. n \in Nat
        BY <1>1
      <4>2. \A j \in more : j <= i
        BY <1>5, <1>6, <2>1, <4>1
      <4> QED BY <4>2
    <3> QED BY <1>1, <1>2, <1>3, <1>7, <2>1, <3>1
  <2>2. CASE i \in due
    <3>1. {j \in more : j <= i} = {j \in due : j <= i}
      BY <1>1, <1>5, <1>6, <2>2
    <3>2. Cardinality({j \in due : j <= i}) \in 1 .. Len(out)
      BY <1>3, <1>4, <2>2
    <3>3. Append(out, e)[Cardinality({j \in due : j <= i})] = taken[i]
      BY <1>2, <1>3, <2>2, <3>2
    <3> QED BY <1>1, <1>6, <2>2, <3>1, <3>3
  <2> QED BY <1>5, <2>1, <2>2
<1>9. Len(Append(out, e)) = Cardinality(more)
  BY <1>2, <1>3, <1>7
<1> QED BY <1>8, <1>9 DEF IsOutput, DueAt, more

-----------------------------------------------------------------------------
LEMMA TheGuardExists == TheGuard \in GuardVars
BY SyncLogAssumption DEF TheGuard

LEMMA NewEntryType ==
    ASSUME LogTypes, NEW t \in Threads, NEW level \in Levels
    PROVE  NewEntry(t, level) \in Entries
BY DEF LogTypes, NewEntry, Entries

(* Threads that are not between sinks, or stay where they are, owe nothing *)
(* else than before.                                                       *)
LEMMA OutputSame ==
    ASSUME NEW l, NEW k, OutputOf(l, k),
           sinkOut'[l][k] = sinkOut[l][k], logTaken'[l] = logTaken[l],
           \A u \in Threads :
                /\ Owes(u, l, k)' <=> Owes(u, l, k)
                /\ Owes(u, l, k) => logStep'[u].entry = logStep[u].entry
    PROVE  OutputOf(l, k)'
BY DEF OutputOf

(* A logger takes on an entry while nobody is between its sinks. *)
LEMMA TakeStep ==
    ASSUME LogTypes, OutputsDue, NEW t \in Threads, NEW l \in Locks, NEW e \in Entries,
           ~AtSinks(t), \A u \in Threads : AtSinks(u) => logStep[u].logger # l,
           AtSinks(t)', logStep'[t].logger = l, logStep'[t].entry = e, logStep'[t].next = 1,
           \A u \in Threads \ {t} : logStep'[u] = logStep[u],
           sinkOut' = sinkOut, logTaken' = [logTaken EXCEPT ![l] = Append(@, e)]
    PROVE  OutputsDue'
<1> SUFFICES ASSUME NEW m \in Locks, NEW k \in 1 .. NumSinks PROVE OutputOf(m, k)'
  BY DEF OutputsDue, NumSinks
<1>0. OutputOf(m, k)
  BY DEF OutputsDue
<1>1. CASE m # l
  <2>1. logTaken'[m] = logTaken[m]
    BY <1>1 DEF LogTypes
  <2>2. ASSUME NEW u \in Threads
        PROVE  /\ Owes(u, m, k)' <=> Owes(u, m, k)
               /\ Owes(u, m, k) => logStep'[u].entry = logStep[u].entry
    BY <1>1 DEF Owes, AtSinks
  <2> QED BY <1>0, <2>1, <2>2, OutputSame
<1>2. CASE m = l
  <2>1. logTaken[l] \in Seq(Entries) /\ sinkOut[l][k] \in Seq(Entries)
        /\ logTaken'[l] = Append(logTaken[l], e)
    BY DEF LogTypes
  <2>2. \A u \in Threads : ~Owes(u, l, k)
    BY DEF Owes, AtSinks
  <2>3. IsOutput(sinkOut[l][k], logTaken[l], k)
    BY <1>0, <1>2, <2>2 DEF OutputOf
  <2>4. \A u \in Threads \ {t} : ~Owes(u, l, k)'
    BY <2>2 DEF Owes
  <2>5. Owes(t, l, k)' <=> Accepts(k, e)
    BY DEF Owes, AtSinks
  <2>6. CASE Accepts(k, e)
    <3>1. IsOutput(Append(sinkOut[l][k], e), Append(logTaken[l], e), k)
      BY <2>1, <2>3, <2>6, OutputExtends
    <3> QED BY <1>2, <2>1, <2>4, <2>5, <2>6, <3>1 DEF OutputOf
  <2>7. CASE ~Accepts(k, e)
    <3>1. IsOutput(sinkOut[l][k], Append(logTaken[l], e), k)
      BY <2>1, <2>3, <2>7, OutputSkips
    <3> QED BY <1>2, <2>1, <2>4, <2>5, <2>7, <3>1 DEF OutputOf
  <2> QED BY <2>6, <2>7
<1> QED BY <1>1, <1>2

(* One sink prints the entry of the thread that has reached it. *)
LEMMA PrintStep ==
    ASSUME LogTypes, OneAtSinks, OutputsDue, NEW t \in Threads, LogSink(t)
    PROVE  OutputsDue'
<1> SUFFICES ASSUME NEW m \in Locks, NEW k \in 1 .. NumSinks PROVE OutputOf(m, k)'
  BY DEF OutputsDue, NumSinks
<1> DEFINE l == logStep[t].logger
           e == logStep[t].entry
           n == logStep[t].next
<1>0. OutputOf(m, k) /\ k \in Nat
  BY DEF OutputsDue
<1>1. /\ AtSinks(t) /\ n <= NumSinks /\ n \in Nat /\ l \in Locks /\ e \in Entries
      /\ logStep'[t] = [logStep[t] EXCEPT !.next = n + 1]
      /\ \A u \in Threads \ {t} : logStep'[u] = logStep[u]
      /\ sinkOut' = [sinkOut EXCEPT ![l][n] = Printed(@, n, e)]
      /\ logTaken' = logTaken
  <2>1. logStep[t] \in [at : {"lock", "sinks"}, logger : Locks, entry : Entries, next : Nat \ {0}]
    BY DEF LogTypes, LogSteps, NotLogging, LogSink
  <2> QED BY <2>1 DEF LogTypes, LogSink, AtSinks
<1>2. logStep'[t].at = logStep[t].at /\ logStep'[t].logger = l /\ logStep'[t].entry = e
      /\ logStep'[t].next = n + 1
  <2>1. logStep[t] \in [at : {"lock", "sinks"}, logger : Locks, entry : Entries, next : Nat \ {0}]
    BY <1>1 DEF LogTypes, LogSteps, NotLogging, AtSinks
  <2> QED BY <1>1, <2>1
<1>3. \A u \in Threads \ {t} : Owes(u, m, k)' <=> Owes(u, m, k)
  BY <1>1 DEF Owes
<1>4. CASE m # l \/ k # n
  <2>1. sinkOut'[m][k] = sinkOut[m][k]
    BY <1>1, <1>4 DEF LogTypes
  <2>2. Owes(t, m, k)' <=> Owes(t, m, k)
    <3>1. k # n => (n + 1 <= k <=> n <= k)
      BY <1>0, <1>1
    <3> QED BY <1>2, <1>4, <3>1 DEF Owes
  <2>3. ASSUME NEW u \in Threads PROVE logStep'[u].entry = logStep[u].entry
    BY <1>1, <1>2
  <2>4. \A u \in Threads : /\ Owes(u, m, k)' <=> Owes(u, m, k)
                           /\ Owes(u, m, k) => logStep'[u].entry = logStep[u].entry
    BY <1>3, <2>2, <2>3
  <2> QED BY <1>0, <1>1, <2>1, <2>4, OutputSame
<1>5. CASE m = l /\ k = n
  <2>1. sinkOut'[m][k] = Printed(sinkOut[m][k], k, e)
    BY <1>1, <1>5 DEF LogTypes
  <2>2. \A u \in Threads \ {t} : ~Owes(u, m, k)
    BY <1>1, <1>5 DEF Owes, OneAtSinks, AtSinks
  <2>3. ~Owes(t, m, k)'
    <3>1. ~(n + 1 <= n)
      BY <1>1
    <3> QED BY <1>2, <1>5, <3>1 DEF Owes
  <2>4. Owes(t, m, k) <=> Accepts(k, e)
    <3>1. n <= n
      BY <1>1
    <3> QED BY <1>1, <1>5, <3>1 DEF Owes, AtSinks
  <2>5. IsOutput(Printed(sinkOut[m][k], k, e), logTaken[m], k)
    BY <1>0, <2>2, <2>4 DEF OutputOf, Printed
  <2>6. \A u \in Threads : ~Owes(u, m, k)'
    BY <1>3, <2>2, <2>3
  <2> QED BY <1>1, <2>1, <2>5, <2>6 DEF OutputOf
<1> QED BY <1>4, <1>5

-----------------------------------------------------------------------------
LEMMA SyncLogInvInit == SyncLogInit => SyncLogInv
<1> SUFFICES ASSUME SyncLogInit PROVE SyncLogInv
  OBVIOUS
<1>1. LockInv
  BY LockInvInit DEF SyncLogInit
<1>2. \A t \in Threads : logStep[t].at = "out"
  BY DEF SyncLogInit, NotLogging
<1>3. LogTypes
  BY EmptySeq DEF SyncLogInit, LogTypes, LogSteps
<1>4. LogLockSides
  BY <1>2 DEF LogLockSides, LogLockSide, AtSinks, SyncLogInit, LockInit, NoGuard
<1>5. OneAtSinks
  BY <1>2 DEF OneAtSinks, AtSinks
<1>6. OutputsDue
  <2> SUFFICES ASSUME NEW l \in Locks, NEW k \in 1 .. NumSinks PROVE OutputOf(l, k)
    BY DEF OutputsDue
  <2>1. sinkOut[l][k] = <<>> /\ logTaken[l] = <<>>
    BY DEF SyncLogInit
  <2>2. {i \in 1 .. Len(<<>>) : Accepts(k, <<>>[i])} = {}
    OBVIOUS
  <2>3. IsOutput(<<>>, <<>>, k)
    BY <2>2, FS_EmptySet DEF IsOutput
  <2>4. \A t \in Threads : ~Owes(t, l, k)
    BY <1>2 DEF Owes
  <2> QED BY <2>1, <2>3, <2>4 DEF OutputOf
<1> QED BY <1>1, <1>3, <1>4, <1>5, <1>6 DEF SyncLogInv

(* An entry that is not taken on only counts. *)
LEMMA LogIgnoredStep ==
    ASSUME SyncLogInv, NEW t \in Threads, NEW level \in Levels, LogIgnored(t, level)
    PROVE  SyncLogInv'
<1>1. UNCHANGED <<lockVars, logPolicy, globalLog, logStep, sinkOut, logTaken>>
      /\ logCount' = [logCount EXCEPT ![t] = @ + 1]
  BY DEF LogIgnored
<1>2. LockInv'
  BY <1>1, LockInvStutter DEF SyncLogInv
<1>3. LogTypes'
  BY <1>1 DEF SyncLogInv, LogTypes, NumSinks
<1>4. \A u \in Threads : logCount'[u] >= logCount[u] /\ logCount[u] \in Nat /\ logCount'[u] \in Nat
  BY <1>1 DEF SyncLogInv, LogTypes
<1>5. LogLockSides'
  <2> SUFFICES ASSUME NEW u \in Threads PROVE LogLockSide(u)'
    BY DEF LogLockSides
  <2>1. LogLockSide(u)
    BY DEF SyncLogInv, LogLockSides
  <2>2. logCount[u] > 0 => logCount'[u] > 0
    BY <1>4
  <2> QED BY <1>1, <2>1, <2>2 DEF LogLockSide, AtSinks, lockVars
<1>6. OneAtSinks'
  BY <1>1 DEF SyncLogInv, OneAtSinks, AtSinks
<1>7. OutputsDue'
  BY <1>1 DEF SyncLogInv, OutputsDue, OutputOf, Owes, NumSinks
<1> QED BY <1>2, <1>3, <1>5, <1>6, <1>7 DEF SyncLogInv

(* Between the sinks a thread only prints. *)
LEMMA LogSinkStep ==
    ASSUME SyncLogInv, NEW t \in Threads, LogSink(t)
    PROVE  SyncLogInv'
<1>0. LogTypes /\ LogLockSides /\ OneAtSinks /\ OutputsDue
  BY DEF SyncLogInv
<1>1. UNCHANGED <<lockVars, logPolicy, globalLog, logCount, logTaken>>
  BY DEF LogSink
<1>2. LockInv'
  BY <1>1, LockInvStutter DEF SyncLogInv
<1>3. logStep[t] \in [at : {"lock", "sinks"}, logger : Locks, entry : Entries, next : Nat \ {0}]
  BY <1>0 DEF LogTypes, LogSteps, NotLogging, LogSink
<1>4. /\ logStep' = [logStep EXCEPT ![t].next = logStep[t].next + 1]
      /\ logStep'[t] \in [at : {"lock", "sinks"}, logger : Locks, entry : Entries, next : Nat \ {0}]
      /\ logStep'[t].at = logStep[t].at /\ logStep'[t].logger = logStep[t].logger
      /\ logStep[t].at = "sinks"
  <2> DEFINE n == logStep[t].next + 1
  <2>1. n \in Nat \ {0}
    BY <1>3
  <2>2. logStep' = [logStep EXCEPT ![t].next = n] /\ logStep[t].at = "sinks"
    BY DEF LogSink
  <2> HIDE DEF n
  <2>3. logStep'[t] = [logStep[t] EXCEPT !.next = n]
    BY <1>0, <2>2 DEF LogTypes
  <2>4. logStep'[t] \in [at : {"lock", "sinks"}, logger : Locks, entry : Entries, next : Nat \ {0}]
        /\ logStep'[t].at = logStep[t].at /\ logStep'[t].logger = logStep[t].logger
    BY <1>3, <2>1, <2>3
  <2> QED BY <2>2, <2>4 DEF n
<1>5. LogTypes'
  <2>1. logStep' \in [Threads -> LogSteps]
    <3>1. logStep \in [Threads -> LogSteps] /\ logStep'[t] \in LogSteps
      BY <1>0, <1>4 DEF LogTypes, LogSteps
    <3> QED BY <1>4, <3>1
  <2>2. sinkOut' \in [Locks -> [1 .. NumSinks -> Seq(Entries)]]
    <3> DEFINE l == logStep[t].logger
               k == logStep[t].next
               e == logStep[t].entry
    <3>1. k \in 1 .. NumSinks /\ l \in Locks /\ e \in Entries
      BY <1>3, SyncLogAssumption DEF LogSink, NumSinks
    <3>2. sinkOut[l][k] \in Seq(Entries)
      BY <1>0, <3>1 DEF LogTypes
    <3> HIDE DEF l, k, e
    <3>3. Printed(sinkOut[l][k], k, e) \in Seq(Entries)
      BY <3>1, <3>2, AppendProperties DEF Printed
    <3>4. sinkOut' = [sinkOut EXCEPT ![l][k] = Printed(sinkOut[l][k], k, e)]
      BY <1>0, <3>1 DEF LogSink, l, k, e, LogTypes
    <3> QED BY <1>0, <3>1, <3>3, <3>4 DEF LogTypes
  <2> QED BY <1>0, <1>1, <2>1, <2>2 DEF LogTypes, NumSinks
<1>6. \A u \in Threads : logStep'[u].at = logStep[u].at /\ logStep'[u].logger = logStep[u].logger
  BY <1>0, <1>4 DEF LogTypes
<1>7. LogLockSides'
  <2> SUFFICES ASSUME NEW u \in Threads PROVE LogLockSide(u)'
    BY DEF LogLockSides
  <2>1. LogLockSide(u)
    BY <1>0 DEF LogLockSides
  <2>2. logStep[u].at = "lock" => logStep'[u].next = logStep[u].next
    BY <1>0, <1>4 DEF LogTypes
  <2> QED BY <1>1, <1>6, <2>1, <2>2 DEF LogLockSide, AtSinks, lockVars
<1>8. OneAtSinks'
  BY <1>0, <1>6 DEF OneAtSinks, AtSinks
<1>9. OutputsDue'
  BY <1>0, PrintStep
<1> QED BY <1>2, <1>5, <1>7, <1>8, <1>9 DEF SyncLogInv

(* log() asks for the sinks: the call is one of the lock. *)
LEMMA LogCallStep ==
    ASSUME SyncLogInv, NEW t \in Threads, NEW level \in Levels, LogCall(t, level)
    PROVE  SyncLogInv'
<1> DEFINE e == NewEntry(t, level)
           step == [at |-> "lock", logger |-> globalLog, entry |-> e, next |-> 1]
<1>0. LogTypes /\ LogLockSides /\ OneAtSinks /\ OutputsDue /\ LockInv
  BY DEF SyncLogInv
<1>1. /\ logPolicy = "MultiThreaded" /\ logStep[t] = NotLogging
      /\ globalLog \in Locks /\ e \in Entries
      /\ logCount' = [logCount EXCEPT ![t] = @ + 1]
      /\ logStep' = [logStep EXCEPT ![t] = step]
      /\ LockWrite(t, globalLog, TheGuard)
      /\ UNCHANGED <<logPolicy, globalLog, sinkOut, logTaken>>
  BY <1>0, NewEntryType DEF LogCall, LogTypes
<1> HIDE DEF e
<1>2. LockInv'
  BY <1>0, <1>1, TheGuardExists, LockInvStep DEF LockNext
<1>3. LogTypes'
  <2>1. step \in LogSteps
    BY <1>1 DEF LogSteps
  <2>2. logCount[t] + 1 \in Nat
    BY <1>0 DEF LogTypes
  <2> HIDE DEF step
  <2> QED BY <1>0, <1>1, <2>1, <2>2 DEF LogTypes, NumSinks
<1>4. logStep'[t] = step /\ \A u \in Threads \ {t} : logStep'[u] = logStep[u]
  BY <1>0, <1>1 DEF LogTypes
<1>5. logStep[t].at = "out" /\ ~AtSinks(t) /\ ~AtSinks(t)'
  BY <1>1, <1>4 DEF NotLogging, AtSinks
<1>6. LogLockSides'
  <2> SUFFICES ASSUME NEW u \in Threads PROVE LogLockSide(u)'
    BY DEF LogLockSides
  <2>0. LogLockSide(u) /\ LogLockSide(t)
    BY <1>0 DEF LogLockSides
  <2>1. lockGuard' = lockGuard
        /\ lockCall' = [lockCall EXCEPT ![t] =
                [op |-> "write", lock |-> globalLog, target |-> TheGuard]]
    BY <1>1 DEF LockWrite, Ask
  <2>2. lockCall \in [Threads -> LockCalls]
    BY <1>0 DEF LockInv, LockTypeInv
  <2>3. CASE u = t
    BY <1>1, <1>4, <1>5, <2>0, <2>1, <2>2, <2>3 DEF LogLockSide, AtSinks
  <2>4. CASE u # t
    <3>1. logStep'[u] = logStep[u] /\ logCount'[u] = logCount[u] /\ lockCall'[u] = lockCall[u]
      BY <1>0, <1>1, <1>4, <2>1, <2>2, <2>4 DEF LogTypes
    <3> QED BY <1>1, <2>0, <2>1, <3>1 DEF LogLockSide, AtSinks
  <2> QED BY <2>3, <2>4
<1>7. OneAtSinks'
  BY <1>0, <1>4, <1>5 DEF OneAtSinks, AtSinks
<1>8. OutputsDue'
  <2> SUFFICES ASSUME NEW l \in Locks, NEW k \in 1 .. NumSinks PROVE OutputOf(l, k)'
    BY DEF OutputsDue, NumSinks
  <2>1. OutputOf(l, k)
    BY <1>0 DEF OutputsDue
  <2>2. \A u \in Threads : /\ Owes(u, l, k)' <=> Owes(u, l, k)
                           /\ Owes(u, l, k) => logStep'[u].entry = logStep[u].entry
    BY <1>4, <1>5 DEF Owes, AtSinks
  <2> QED BY <1>1, <2>1, <2>2, OutputSame
<1> QED BY <1>2, <1>3, <1>6, <1>7, <1>8 DEF SyncLogInv

(* log() gets the sinks: by the mutex, when nobody else is at them. *)
LEMMA LogLockedStep ==
    ASSUME SyncLogInv, NEW t \in Threads, LogLocked(t)
    PROVE  SyncLogInv'
<1> DEFINE l == logStep[t].logger
           e == logStep[t].entry
<1>0. LogTypes /\ LogLockSides /\ OneAtSinks /\ OutputsDue /\ LockInv
  BY DEF SyncLogInv
<1>1. logStep[t] \in [at : {"lock", "sinks"}, logger : Locks, entry : Entries, next : Nat \ {0}]
  BY <1>0 DEF LogTypes, LogSteps, NotLogging, LogLocked
<1>2. /\ logStep[t].at = "lock" /\ WriteReturns(t)
      /\ logStep' = [logStep EXCEPT ![t].at = "sinks"]
      /\ logTaken' = [logTaken EXCEPT ![l] = Append(@, e)]
      /\ UNCHANGED <<logPolicy, globalLog, logCount, sinkOut>>
      /\ l \in Locks /\ e \in Entries
  BY <1>1 DEF LogLocked
<1>3. /\ logStep'[t].at = "sinks" /\ logStep'[t].logger = l /\ logStep'[t].entry = e
      /\ logStep'[t].next = logStep[t].next /\ logStep'[t] \in LogSteps
      /\ \A u \in Threads \ {t} : logStep'[u] = logStep[u]
  BY <1>0, <1>1, <1>2 DEF LogTypes, LogSteps
<1>4. /\ logPolicy = "MultiThreaded" /\ logStep[t].next = 1
      /\ lockCall[t] = [op |-> "write", lock |-> l, target |-> TheGuard]
      /\ \A g \in GuardVars : ~lockGuard[t][g].owns
  BY <1>0, <1>2 DEF LogLockSides, LogLockSide, AtSinks
<1>5. LockInv'
  BY <1>0, <1>2, LockInvStep DEF LockNext
<1>6. \A u \in Threads : AtSinks(u) => logStep[u].logger # l
  <2> SUFFICES ASSUME NEW u \in Threads, AtSinks(u), logStep[u].logger = l PROVE FALSE
    OBVIOUS
  <2>1. <<u, TheGuard>> \in OwnersIn(lockGuard, "write", l)
    BY <1>0, <1>4 DEF LogLockSides, LogLockSide
  <2>2. lockMutex[l].exclusive
    BY <1>0, <1>2, <2>1 DEF LockInv, MutexCounts
  <2> QED BY <1>2, <1>4, <2>2 DEF WriteReturns, ExclusiveFree
<1>7. LogTypes'
  <2>1. logStep' \in [Threads -> LogSteps]
    BY <1>0, <1>2, <1>3 DEF LogTypes
  <2>2. logTaken' \in [Locks -> Seq(Entries)]
    BY <1>0, <1>2, AppendProperties DEF LogTypes
  <2> QED BY <1>0, <1>2, <2>1, <2>2 DEF LogTypes, NumSinks
<1>8. LogLockSides'
  <2> SUFFICES ASSUME NEW u \in Threads PROVE LogLockSide(u)'
    BY DEF LogLockSides
  <2>0. LogLockSide(u)
    BY <1>0 DEF LogLockSides
  <2>1. lockGuard' = [lockGuard EXCEPT ![t][TheGuard] = NewGuard("write", l)]
        /\ lockCall' = [lockCall EXCEPT ![t] = NoCall]
    BY <1>2, <1>4 DEF WriteReturns, Granted
  <2>2. lockCall \in [Threads -> LockCalls] /\ lockGuard \in [Threads -> [GuardVars -> Guards]]
    BY <1>0 DEF LockInv, LockTypeInv, GuardTables
  <2>3. CASE u = t
    <3>1. lockCall'[t] = NoCall /\ \A g \in GuardVars \ {TheGuard} : ~lockGuard'[t][g].owns
      BY <1>4, <2>1, <2>2
    <3>2. lockGuard'[t][TheGuard] = NewGuard("write", l)
      BY <2>1, <2>2, TheGuardExists
    <3>3. <<t, TheGuard>> \in OwnersIn(lockGuard', "write", l)
      BY <3>2, TheGuardExists DEF OwnersIn, NewGuard
    <3> QED BY <1>2, <1>3, <1>4, <2>3, <3>1, <3>3 DEF LogLockSide, AtSinks
  <2>4. CASE u # t
    <3>1. logStep'[u] = logStep[u] /\ lockCall'[u] = lockCall[u] /\ lockGuard'[u] = lockGuard[u]
      BY <1>3, <2>1, <2>2, <2>4
    <3>2. \A m : <<u, TheGuard>> \in OwnersIn(lockGuard, "write", m)
                    => <<u, TheGuard>> \in OwnersIn(lockGuard', "write", m)
      BY <3>1 DEF OwnersIn
    <3> QED BY <1>2, <2>0, <3>1, <3>2 DEF LogLockSide, AtSinks
  <2> QED BY <2>3, <2>4
<1>9. OneAtSinks'
  BY <1>0, <1>3, <1>6 DEF OneAtSinks, AtSinks
<1>10. OutputsDue'
  <2>1. ~AtSinks(t) /\ AtSinks(t)' /\ logStep'[t].next = 1
    BY <1>2, <1>3, <1>4 DEF AtSinks
  <2> QED BY <1>0, <1>2, <1>3, <1>6, <2>1, TakeStep
<1> QED BY <1>5, <1>7, <1>8, <1>9, <1>10 DEF SyncLogInv

(* log() returns when every sink has the entry, and its guard goes. *)
LEMMA LogReturnStep ==
    ASSUME SyncLogInv, NEW t \in Threads, LogReturn(t)
    PROVE  SyncLogInv'
<1>0. LogTypes /\ LogLockSides /\ OneAtSinks /\ OutputsDue /\ LockInv
  BY DEF SyncLogInv
<1>1. /\ AtSinks(t) /\ logStep[t].next > NumSinks
      /\ logStep' = [logStep EXCEPT ![t] = NotLogging]
      /\ IF logPolicy = "MultiThreaded" THEN GuardDestroy(t, TheGuard) ELSE UNCHANGED lockVars
      /\ UNCHANGED <<logPolicy, globalLog, logCount, sinkOut, logTaken>>
  BY DEF LogReturn, AtSinks
<1>2. logStep'[t] = NotLogging /\ \A u \in Threads \ {t} : logStep'[u] = logStep[u]
  BY <1>0, <1>1 DEF LogTypes
<1>3. LockInv'
  <2>1. CASE logPolicy = "MultiThreaded"
    BY <1>0, <1>1, <2>1, TheGuardExists, LockInvStep DEF LockNext
  <2>2. CASE logPolicy # "MultiThreaded"
    BY <1>0, <1>1, <2>2, LockInvStutter
  <2> QED BY <2>1, <2>2
<1>4. LogTypes'
  <2>1. logStep' \in [Threads -> LogSteps]
    BY <1>0, <1>1 DEF LogTypes, LogSteps
  <2> QED BY <1>0, <1>1, <2>1 DEF LogTypes, NumSinks
<1>5. ~AtSinks(t)' /\ logStep'[t].at = "out"
  BY <1>2 DEF AtSinks, NotLogging
<1>6. LogLockSides'
  <2> SUFFICES ASSUME NEW u \in Threads PROVE LogLockSide(u)'
    BY DEF LogLockSides
  <2>0. LogLockSide(u) /\ LogLockSide(t)
    BY <1>0 DEF LogLockSides
  <2>1. CASE logPolicy = "MultiThreaded"
    <3>1. lockGuard' = [lockGuard EXCEPT ![t][TheGuard] = NoGuard] /\ lockCall' = lockCall
      BY <1>1, <2>1 DEF GuardDestroy
    <3>2. lockGuard \in [Threads -> [GuardVars -> Guards]]
      BY <1>0 DEF LockInv, LockTypeInv, GuardTables
    <3>3. CASE u = t
      <4>1. lockGuard'[t] = [lockGuard[t] EXCEPT ![TheGuard] = NoGuard]
            /\ lockGuard[t] \in [GuardVars -> Guards]
        BY <3>1, <3>2
      <4>2. \A g \in GuardVars \ {TheGuard} : ~lockGuard[t][g].owns
        BY <2>0 DEF LogLockSide
      <4>3. \A g \in GuardVars : ~lockGuard'[t][g].owns
        BY <4>1, <4>2 DEF NoGuard
      <4>4. lockCall[t] = NoCall
        BY <1>1, <2>0 DEF LogLockSide, AtSinks
      <4> QED BY <1>5, <3>1, <3>3, <4>3, <4>4 DEF LogLockSide, AtSinks
    <3>4. CASE u # t
      <4>1. lockGuard'[u] = lockGuard[u] /\ logStep'[u] = logStep[u]
        BY <1>2, <3>1, <3>2, <3>4
      <4>2. \A m : <<u, TheGuard>> \in OwnersIn(lockGuard, "write", m)
                      => <<u, TheGuard>> \in OwnersIn(lockGuard', "write", m)
        BY <4>1 DEF OwnersIn
      <4> QED BY <1>1, <2>0, <3>1, <4>1, <4>2 DEF LogLockSide, AtSinks
    <3> QED BY <3>3, <3>4
  <2>2. CASE logPolicy # "MultiThreaded"
    <3>1. lockGuard' = lockGuard /\ lockCall' = lockCall
      BY <1>1, <2>2 DEF lockVars
    <3>2. CASE u = t
      BY <1>1, <1>5, <2>0, <2>2, <3>1, <3>2 DEF LogLockSide, AtSinks
    <3>3. CASE u # t
      BY <1>1, <1>2, <2>0, <2>2, <3>1, <3>3 DEF LogLockSide, AtSinks
    <3> QED BY <3>2, <3>3
  <2> QED BY <2>1, <2>2
<1>7. OneAtSinks'
  BY <1>0, <1>2, <1>5 DEF OneAtSinks, AtSinks
<1>8. OutputsDue'
  <2> SUFFICES ASSUME NEW l \in Locks, NEW k \in 1 .. NumSinks PROVE OutputOf(l, k)'
    BY DEF OutputsDue, NumSinks
  <2>1. OutputOf(l, k)
    BY <1>0 DEF OutputsDue
  <2>2. ~Owes(t, l, k)
    <3>1. logStep[t].next \in Nat
      BY <1>0, <1>1 DEF LogTypes, LogSteps, NotLogging, AtSinks
    <3>2. NumSinks \in Nat
      BY SyncLogAssumption DEF NumSinks
    <3>3. ~(logStep[t].next <= k)
      BY <1>1, <3>1, <3>2
    <3> QED BY <3>3 DEF Owes
  <2>3. ~Owes(t, l, k)'
    BY <1>5 DEF Owes
  <2>4. \A u \in Threads : /\ Owes(u, l, k)' <=> Owes(u, l, k)
                           /\ Owes(u, l, k) => logStep'[u].entry = logStep[u].entry
    BY <1>2, <2>2, <2>3 DEF Owes
  <2> QED BY <1>1, <2>1, <2>4, OutputSame
<1> QED BY <1>3, <1>4, <1>6, <1>7, <1>8 DEF SyncLogInv

(* log() without a lock: its caller is the one thread that ever logged. *)
LEMMA LogCallUnlockedStep ==
    ASSUME SyncLogInv, NEW t \in Threads, NEW level \in Levels, LogCallUnlocked(t, level)
    PROVE  SyncLogInv'
<1> DEFINE e == NewEntry(t, level)
           step == [at |-> "sinks", logger |-> globalLog, entry |-> e, next |-> 1]
<1>0. LogTypes /\ LogLockSides /\ OneAtSinks /\ OutputsDue /\ LockInv
  BY DEF SyncLogInv
<1>1. /\ logPolicy = "SingleThreaded" /\ logStep[t] = NotLogging
      /\ \A u \in Threads \ {t} : logCount[u] = 0
      /\ globalLog \in Locks /\ e \in Entries
      /\ logCount' = [logCount EXCEPT ![t] = @ + 1]
      /\ logStep' = [logStep EXCEPT ![t] = step]
      /\ logTaken' = [logTaken EXCEPT ![globalLog] = Append(@, e)]
      /\ UNCHANGED <<lockVars, logPolicy, globalLog, sinkOut>>
  BY <1>0, NewEntryType DEF LogCallUnlocked, LogTypes
<1> HIDE DEF e
<1>2. LockInv'
  BY <1>0, <1>1, LockInvStutter
<1>3. logStep'[t] = step /\ \A u \in Threads \ {t} : logStep'[u] = logStep[u]
  BY <1>0, <1>1 DEF LogTypes
<1>4. \A u \in Threads : ~AtSinks(u)
  <2> SUFFICES ASSUME NEW u \in Threads, AtSinks(u) PROVE FALSE
    OBVIOUS
  <2>1. u # t
    BY <1>1 DEF AtSinks, NotLogging
  <2>2. logCount[u] > 0
    BY <1>0, <1>1 DEF LogLockSides, LogLockSide
  <2> QED BY <1>1, <2>1, <2>2
<1>5. LogTypes'
  <2>1. step \in LogSteps
    BY <1>1 DEF LogSteps
  <2>2. logCount[t] + 1 \in Nat
    BY <1>0 DEF LogTypes
  <2>3. logTaken' \in [Locks -> Seq(Entries)]
    BY <1>0, <1>1, AppendProperties DEF LogTypes
  <2> HIDE DEF step
  <2> QED BY <1>0, <1>1, <2>1, <2>2, <2>3 DEF LogTypes, NumSinks
<1>6. LogLockSides'
  <2> SUFFICES ASSUME NEW u \in Threads PROVE LogLockSide(u)'
    BY DEF LogLockSides
  <2>0. LogLockSide(u)
    BY <1>0 DEF LogLockSides
  <2>1. lockGuard' = lockGuard /\ lockCall' = lockCall /\ logPolicy' = "SingleThreaded"
    BY <1>1 DEF lockVars
  <2>2. \A g \in GuardVars : ~lockGuard[u][g].owns
    BY <1>1, <2>0 DEF LogLockSide
  <2>3. CASE u = t
    <3>1. lockCall[t] = NoCall
      BY <1>1, <2>0, <2>3 DEF LogLockSide, NotLogging
    <3>2. logCount'[t] > 0
      BY <1>0, <1>1 DEF LogTypes
    <3> QED BY <1>3, <2>1, <2>2, <2>3, <3>1, <3>2 DEF LogLockSide
  <2>4. CASE u # t
    <3>1. logStep'[u] = logStep[u] /\ logCount'[u] = logCount[u]
      BY <1>0, <1>1, <1>3, <2>4 DEF LogTypes
    <3> QED BY <1>1, <2>0, <2>1, <3>1 DEF LogLockSide, AtSinks
  <2> QED BY <2>3, <2>4
<1>7. OneAtSinks'
  BY <1>3, <1>4 DEF OneAtSinks, AtSinks
<1>8. OutputsDue'
  <2>1. AtSinks(t)' /\ logStep'[t].logger = globalLog /\ logStep'[t].entry = e
        /\ logStep'[t].next = 1
    BY <1>3 DEF AtSinks
  <2> QED BY <1>0, <1>1, <1>3, <1>4, <2>1, TakeStep
<1> QED BY <1>2, <1>5, <1>6, <1>7, <1>8 DEF SyncLogInv

(* A new global logger comes while nobody logs, with a lock nobody has. *)
LEMMA SetGlobalLoggerStep ==
    ASSUME SyncLogInv, NEW l \in Locks, SetGlobalLogger(l)
    PROVE  SyncLogInv'
<1>0. LogTypes /\ LogLockSides /\ OneAtSinks /\ OutputsDue /\ LockInv
  BY DEF SyncLogInv
<1>1. /\ \A t \in Threads : logStep[t] = NotLogging
      /\ globalLog' = l
      /\ lockMutex' = [k \in Locks |-> [alive |-> k = l, exclusive |-> FALSE, shared |-> 0]]
      /\ UNCHANGED <<lockData, lockGuard, lockCall, logPolicy, logStep, logCount, sinkOut, logTaken>>
  BY DEF SetGlobalLogger
<1>2. \A t \in Threads : lockCall[t] = NoCall /\ \A g \in GuardVars : ~lockGuard[t][g].owns
  <2> SUFFICES ASSUME NEW t \in Threads
               PROVE  lockCall[t] = NoCall /\ \A g \in GuardVars : ~lockGuard[t][g].owns
    OBVIOUS
  <2>1. LogLockSide(t) /\ logStep[t].at = "out"
    BY <1>0, <1>1 DEF LogLockSides, NotLogging
  <2> QED BY <2>1 DEF LogLockSide, AtSinks
<1>3. LockInv'
  <2>1. LockTypeInv'
    <3>1. lockMutex' \in [Locks -> Mutexes]
      BY <1>1 DEF Mutexes
    <3> QED BY <1>0, <1>1, <3>1 DEF LockInv, LockTypeInv
  <2>2. \A kind, m : OwnersIn(lockGuard', kind, m) = {}
    BY <1>1, <1>2 DEF OwnersIn
  <2>3. MutexCounts'
    <3>1. \A m \in Locks : lockMutex'[m].shared = 0 /\ ~lockMutex'[m].exclusive
      BY <1>1
    <3>2. Cardinality({}) = 0
      BY FS_EmptySet
    <3> QED BY <2>2, <3>1, <3>2 DEF MutexCounts
  <2>4. CallsAgree'
    BY <1>1, <1>2 DEF CallsAgree, CallAgrees, NoCall
  <2>5. GuardsAgree' /\ GuardSeesStable'
    BY <1>0, <1>1 DEF LockInv, GuardsAgree, GuardSeesStable, Sees
  <2> QED BY <2>1, <2>3, <2>4, <2>5 DEF LockInv
<1>4. LogTypes'
  BY <1>0, <1>1 DEF LogTypes, NumSinks
<1>5. LogLockSides'
  BY <1>0, <1>1 DEF LogLockSides, LogLockSide, AtSinks
<1>6. OneAtSinks'
  BY <1>0, <1>1 DEF OneAtSinks, AtSinks
<1>7. OutputsDue'
  <2> SUFFICES ASSUME NEW m \in Locks, NEW k \in 1 .. NumSinks PROVE OutputOf(m, k)'
    BY DEF OutputsDue, NumSinks
  <2>1. OutputOf(m, k)
    BY <1>0 DEF OutputsDue
  <2>2. \A u \in Threads : Owes(u, m, k)' <=> Owes(u, m, k)
    BY <1>1 DEF Owes
  <2> QED BY <1>1, <2>1, <2>2, OutputSame
<1> QED BY <1>3, <1>4, <1>5, <1>6, <1>7 DEF SyncLogInv

(* The invariant is inductive. *)
LEMMA SyncLogInvStep == SyncLogInv /\ [SyncLogNext]_<<lockVars, syncLogVars>> => SyncLogInv'
<1> SUFFICES ASSUME SyncLogInv, [SyncLogNext]_<<lockVars, syncLogVars>> PROVE SyncLogInv'
  OBVIOUS
<1>1. ASSUME NEW t \in Threads, NEW level \in Levels,
             LogIgnored(t, level) \/ LogCall(t, level) \/ LogCallUnlocked(t, level)
      PROVE  SyncLogInv'
  BY <1>1, LogIgnoredStep, LogCallStep, LogCallUnlockedStep
<1>2. ASSUME NEW t \in Threads, LogLocked(t) \/ LogSink(t) \/ LogReturn(t)
      PROVE  SyncLogInv'
  BY <1>2, LogLockedStep, LogSinkStep, LogReturnStep
<1>3. ASSUME NEW l \in Locks, SetGlobalLogger(l) PROVE SyncLogInv'
  BY <1>3, SetGlobalLoggerStep
<1>4. CASE UNCHANGED <<lockVars, syncLogVars>>
  <2>1. LockInv'
    BY <1>4, LockInvStutter DEF SyncLogInv
  <2>2. LogTypes'
    BY <1>4 DEF SyncLogInv, LogTypes, NumSinks, syncLogVars
  <2>3. LogLockSides'
    BY <1>4 DEF SyncLogInv, LogLockSides, LogLockSide, AtSinks, lockVars, syncLogVars
  <2>4. OneAtSinks'
    BY <1>4 DEF SyncLogInv, OneAtSinks, AtSinks, syncLogVars
  <2>5. OutputsDue'
    BY <1>4 DEF SyncLogInv, OutputsDue, OutputOf, Owes, NumSinks, syncLogVars
  <2> QED BY <2>1, <2>2, <2>3, <2>4, <2>5 DEF SyncLogInv
<1> QED BY <1>1, <1>2, <1>3, <1>4 DEF SyncLogNext

(* SinksAgree for any number of threads, loggers, sinks and entries, and   *)
(* for both threading policies: every sink prints, in the order in which   *)
(* the logger took them on and each once, the entries at or above its      *)
(* level, whichever threads log at the same time (Logger.h:909, :923).     *)
THEOREM SinksPrintInOrder == SyncLogSpec => []SinksAgree
<1>1. SyncLogInv => SinksAgree
  BY DEF SyncLogInv, OutputsDue, OutputOf, SinksAgree
<1> QED BY <1>1, SyncLogInvInit, SyncLogInvStep, PTL DEF SyncLogSpec
=============================================================================
