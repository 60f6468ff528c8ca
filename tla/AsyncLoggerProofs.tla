-------------------------- MODULE AsyncLoggerProofs --------------------------
(***************************************************************************)
(* What TLAPS proves of the asynchronous loggers, for every queue capacity *)
(* and number of entries: what the destructor has handed to the sinks, and *)
(* what the sleeping logging thread may leave behind.                      *)
(*                                                                         *)
(* Every step of a logger is a step of its queue or leaves the queue       *)
(* alone, so the invariants of LockFreeQueueProofs hold in it; the logger  *)
(* adds how the threads and the destructor wait for each other.            *)
(***************************************************************************)
EXTENDS AsyncLogger, LockFreeQueueProofs

(* The policies that only add entries: their pushes are among PushOps. *)
Adding == AsyncPolicy # "OverwriteWhenFull"
AddingPushes == {"push_back", "try_push_back"} \subseteq PushOps

LogTypeOK ==
    /\ policy \in Policies
    /\ m_signal \in Nat /\ m_exit_flag \in BOOLEAN
    /\ lpc \in [Producers -> {"ready", "release", "push"}]
    /\ tpc \in {"test_exit", "read", "acquire", "flush", "done"}
    /\ dpc \in {"alive", "release", "join", "destroyed"}

(* A client is in its queue operation or elsewhere in log(), never both; the
   destructor starts when every log() has returned and ends after the logging
   thread; that thread flushes only once it is told to stop, and ends with
   nothing left to read. *)
Waits ==
    /\ \A p \in Producers : lpc[p] # "ready" => pc[p] = "idle"
    /\ dpc # "alive" => \A p \in Producers : Returned(p)
    /\ m_exit_flag => dpc # "alive"
    /\ tpc \in {"flush", "done"} => dpc # "alive"
    /\ cpc # "idle" => tpc \in {"read", "flush"}
    /\ tpc = "done" => NothingToRead
    /\ dpc = "destroyed" => tpc = "done"

(* The sinks get what the queue delivers. *)
LogInv == LogTypeOK /\ Waits /\ sunk = delivered

LEMMA LogInvInit == LogInit => LogInv
  <1> SUFFICES ASSUME LogInit PROVE LogInv
    OBVIOUS
  <1>1. /\ policy \in Policies /\ m_signal = 0 /\ m_exit_flag = FALSE
        /\ lpc = [p \in Producers |-> "ready"] /\ tpc = "test_exit" /\ dpc = "alive"
        /\ sunk = delivered /\ cpc = "idle"
    BY DEF LogInit, InitEmpty, Idle
  <1>2. LogTypeOK
    BY <1>1 DEF LogTypeOK
  <1>3. Waits
    BY <1>1 DEF Waits
  <1> QED
    BY <1>1, <1>2, <1>3 DEF LogInv

(* The push operation of a policy that only adds is one of the queue's. *)
LEMMA PushOperationAdds ==
    ASSUME AddingPushes, LogTypeOK, Adding
    PROVE  PushOperation \in PushOps
  <1>1. AsyncPolicy \in {"DropWhenFull", "BlockWhenFull"}
    BY PolicyAssumption DEF LogTypeOK, Adding, AsyncPolicy
  <1>2. CASE AsyncPolicy = "DropWhenFull"
    <2>1. PushOperation = "try_push_back"
      BY <1>2 DEF PushOperation
    <2> QED
      BY <2>1 DEF AddingPushes
  <1>3. CASE AsyncPolicy = "BlockWhenFull"
    <2>1. PushOperation = "push_back"
      BY <1>3 DEF PushOperation
    <2> QED
      BY <2>1 DEF AddingPushes
  <1> QED
    BY <1>1, <1>2, <1>3

(* A step of such a logger is a step of its queue or leaves the queue alone. *)
LEMMA LogStepsQueue ==
    ASSUME AddingPushes, LogTypeOK, Adding, [LogNext]_logVars
    PROVE  [Next]_vars
  <1>1. PushOperation \in PushOps
    BY PushOperationAdds
  <1>2. UNCHANGED logVars => UNCHANGED vars
    BY DEF logVars
  <1>3. UNCHANGED queue => UNCHANGED vars
    BY DEF queue, vars
  <1>4. ASSUME NEW p \in Producers, NEW level \in EntryLevels, Log(p, level)
        PROVE  UNCHANGED vars
    BY <1>3, <1>4 DEF Log
  <1>5. ASSUME NEW p \in Producers, Client(p) PROVE Next \/ UNCHANGED vars
    <2>1. CASE Release(p)
      BY <1>3, <2>1 DEF Release
    <2>2. CASE Push(p)
      BY <1>1, <2>2 DEF Push, Next
    <2>3. CASE PushStep(p)
      BY <2>3 DEF PushStep, Next
    <2> QED
      BY <1>5, <2>1, <2>2, <2>3 DEF Client
  <1>6. ASSUME LoggingThread PROVE Next \/ UNCHANGED vars
    BY <1>3, <1>6
    DEF LoggingThread, TestExit, TryRead, TryReadMove, Sink, Acquire, Next, ConsumerStep
  <1>7. ASSUME RequestStop \/ Destructor PROVE UNCHANGED vars
    BY <1>3, <1>7 DEF RequestStop, Destructor, StopRelease, Join
  <1> QED
    BY <1>2, <1>4, <1>5, <1>6, <1>7 DEF LogNext, Gone

(* The waiting is kept up by every step. *)
LEMMA LogInvStep ==
    ASSUME TypeInv, LogInv, [LogNext]_logVars
    PROVE  LogInv'
  <1> USE DEF queue, counters, producer, consumer, history
  <1>0. LogTypeOK /\ Waits /\ sunk = delivered
    BY DEF LogInv
  <1>t. \A p \in Producers : pc[p] # "idle" => lpc[p] = "ready"
    BY <1>0 DEF Waits, LogTypeOK
  <1>d. pc \in [Producers -> {"idle", "increment_size", "decrement_size",
                              "claim", "take_back", "store", "publish"}]
    BY DEF TypeInv, TypeOK
  <1>1. ASSUME NEW p \in Producers, NEW level \in EntryLevels, Log(p, level) PROVE LogInv'
    <2>1. /\ dpc = "alive" /\ lpc[p] = "ready" /\ pc[p] = "idle"
          /\ UNCHANGED <<policy, pc, cpc, m_read, m_max_read, delivered, m_signal, m_exit_flag,
                         tpc, dpc, sunk>>
          /\ lpc' = lpc \/ \E x \in {"release", "push"} : lpc' = [lpc EXCEPT ![p] = x]
      BY <1>1 DEF Log, Returned
    <2>2. LogTypeOK'
      BY <1>0, <2>1 DEF LogTypeOK
    <2>3. \A q \in Producers : q # p => lpc'[q] = lpc[q]
      BY <1>0, <2>1 DEF LogTypeOK
    <2>4. Waits'
      BY <1>0, <2>1, <2>3 DEF Waits, NothingToRead, LogTypeOK
    <2> QED
      BY <1>0, <2>1, <2>2, <2>4 DEF LogInv
  <1>2. ASSUME NEW p \in Producers, Release(p) PROVE LogInv'
    <2>1. /\ lpc[p] = "release" /\ m_signal' = m_signal + 1 /\ lpc' = [lpc EXCEPT ![p] = "push"]
          /\ UNCHANGED <<policy, pc, cpc, m_read, m_max_read, delivered, m_exit_flag,
                         tpc, dpc, sunk>>
      BY <1>2 DEF Release
    <2>2. LogTypeOK'
      BY <1>0, <2>1 DEF LogTypeOK
    <2>3. Waits'
      BY <1>0, <2>1 DEF Waits, NothingToRead, LogTypeOK, Returned
    <2> QED
      BY <1>0, <2>1, <2>2, <2>3 DEF LogInv
  <1>3. ASSUME NEW p \in Producers, Push(p) PROVE LogInv'
    <2>1. /\ lpc[p] = "push" /\ lpc' = [lpc EXCEPT ![p] = "ready"]
          /\ pc' = [pc EXCEPT ![p] = "increment_size"]
          /\ UNCHANGED <<policy, cpc, m_read, m_max_read, delivered, m_signal, m_exit_flag,
                         tpc, dpc, sunk>>
      BY <1>3 DEF Push, CallPush
    <2>2. LogTypeOK'
      BY <1>0, <2>1 DEF LogTypeOK
    <2>3. Waits'
      BY <1>0, <1>d, <2>1 DEF Waits, NothingToRead, LogTypeOK, Returned
    <2> QED
      BY <1>0, <2>1, <2>2, <2>3 DEF LogInv
  <1>4. ASSUME NEW p \in Producers, PushStep(p) PROVE LogInv'
    <2>1. /\ pc[p] # "idle" /\ \A q \in Producers : q # p => pc'[q] = pc[q]
          /\ UNCHANGED <<policy, lpc, cpc, m_read, delivered, m_signal, m_exit_flag,
                         tpc, dpc, sunk>>
      BY <1>d, <1>4
      DEF PushStep, ProducerStep, IncrementSize, DecrementSize, Claim, TakeBack, Store, Publish
    <2>2. LogTypeOK'
      BY <1>0, <2>1 DEF LogTypeOK
    <2>3. dpc = "alive" /\ lpc[p] = "ready"
      BY <1>0, <2>1 DEF Waits, Returned
    <2>4. Waits'
      BY <1>0, <2>1, <2>3 DEF Waits, LogTypeOK
    <2> QED
      BY <1>0, <2>1, <2>2, <2>4 DEF LogInv
  <1>5. CASE TestExit
    <2>1. /\ tpc = "test_exit" /\ tpc' = IF m_exit_flag THEN "flush" ELSE "read"
          /\ UNCHANGED <<policy, pc, lpc, cpc, m_read, m_max_read, delivered, m_signal,
                         m_exit_flag, dpc, sunk>>
      BY <1>5 DEF TestExit
    <2> QED
      BY <1>0, <2>1 DEF LogInv, Waits, NothingToRead, LogTypeOK, Returned
  <1>6. CASE TryRead
    <2>1. /\ tpc \in {"read", "flush"} /\ cpc = "idle"
          /\ tpc' = IF ~ NothingToRead THEN tpc
                    ELSE IF tpc = "read" THEN "acquire" ELSE "done"
          /\ UNCHANGED <<policy, pc, lpc, m_max_read, delivered, m_signal, m_exit_flag, dpc, sunk>>
          /\ NothingToRead => UNCHANGED <<cpc, m_read>>
      BY <1>6 DEF TryRead, PopFront
    <2>2. LogTypeOK'
      BY <1>0, <2>1 DEF LogTypeOK
    <2>3. dpc # "destroyed"
      BY <1>0, <2>1 DEF Waits
    <2>4. CASE NothingToRead
      <3>1. NothingToRead'
        BY <2>1, <2>4 DEF NothingToRead
      <3>2. Waits'
        BY <1>0, <2>1, <2>3, <2>4, <3>1 DEF Waits, LogTypeOK, Returned
      <3> QED
        BY <1>0, <2>1, <2>2, <3>2 DEF LogInv
    <2>5. CASE ~ NothingToRead
      <3>1. tpc' = tpc
        BY <2>1, <2>5
      <3>2. Waits'
        BY <1>0, <2>1, <2>3, <3>1 DEF Waits, LogTypeOK, Returned
      <3> QED
        BY <1>0, <2>1, <2>2, <3>2 DEF LogInv
    <2> QED
      BY <2>4, <2>5
  <1>7. CASE TryReadMove
    <2>1. /\ cpc = "move"
          /\ UNCHANGED <<policy, pc, lpc, tpc, m_read, m_max_read, delivered, m_signal,
                         m_exit_flag, dpc, sunk>>
      BY <1>7 DEF TryReadMove, MoveOut
    <2> QED
      BY <1>0, <2>1 DEF LogInv, Waits, NothingToRead, LogTypeOK, Returned
  <1>8. CASE Sink
    <2>1. /\ cpc = "release" /\ cpc' = "idle" /\ sunk' = Append(sunk, popped)
          /\ delivered' = Append(delivered, popped)
          /\ tpc' = IF tpc = "read" THEN "acquire" ELSE "flush"
          /\ UNCHANGED <<policy, pc, lpc, m_read, m_max_read, m_signal, m_exit_flag, dpc>>
      BY <1>8 DEF Sink, ReleaseSlot
    <2>2. tpc \in {"read", "flush"}
      BY <1>0, <2>1 DEF Waits
    <2>3. LogTypeOK'
      BY <1>0, <2>1 DEF LogTypeOK
    <2>4. Waits'
      BY <1>0, <2>1, <2>2 DEF Waits, NothingToRead, LogTypeOK, Returned
    <2> QED
      BY <1>0, <2>1, <2>3, <2>4 DEF LogInv
  <1>9. CASE Acquire
    <2>1. /\ tpc = "acquire" /\ tpc' = "test_exit" /\ m_signal > 0 /\ m_signal' = m_signal - 1
          /\ UNCHANGED <<policy, pc, lpc, cpc, m_read, m_max_read, delivered, m_exit_flag,
                         dpc, sunk>>
      BY <1>9 DEF Acquire
    <2> QED
      BY <1>0, <2>1 DEF LogInv, Waits, NothingToRead, LogTypeOK, Returned
  <1>10. CASE RequestStop
    <2>1. /\ dpc = "alive" /\ dpc' = "release" /\ m_exit_flag' = TRUE
          /\ \A p \in Producers : Returned(p)
          /\ UNCHANGED <<policy, pc, lpc, cpc, m_read, m_max_read, delivered, m_signal, tpc, sunk>>
      BY <1>10 DEF RequestStop
    <2> QED
      BY <1>0, <2>1 DEF LogInv, Waits, NothingToRead, LogTypeOK, Returned
  <1>11. CASE StopRelease
    <2>1. /\ dpc = "release" /\ dpc' = "join" /\ m_signal' = m_signal + 1
          /\ UNCHANGED <<policy, pc, lpc, cpc, m_read, m_max_read, delivered, m_exit_flag,
                         tpc, sunk>>
      BY <1>11 DEF StopRelease
    <2> QED
      BY <1>0, <2>1 DEF LogInv, Waits, NothingToRead, LogTypeOK, Returned
  <1>12. CASE Join
    <2>1. /\ dpc = "join" /\ tpc = "done" /\ dpc' = "destroyed"
          /\ UNCHANGED <<policy, pc, lpc, cpc, m_read, m_max_read, delivered, m_signal,
                         m_exit_flag, tpc, sunk>>
      BY <1>12 DEF Join
    <2> QED
      BY <1>0, <2>1 DEF LogInv, Waits, NothingToRead, LogTypeOK, Returned
  <1>13. CASE UNCHANGED logVars
    BY <1>0, <1>13 DEF LogInv, Waits, NothingToRead, LogTypeOK, Returned, logVars, vars
  <1> QED
    BY <1>1, <1>2, <1>3, <1>4, <1>5, <1>6, <1>7, <1>8, <1>9, <1>10, <1>11, <1>12, <1>13
    DEF LogNext, Client, LoggingThread, Destructor, Gone

----------------------------------------------------------------------------
(* Any number of clients *)

(* What holds while a policy that only adds is in force; no step changes the
   policy. *)
ManyClientsInv ==
    policy \in Policies /\ (Adding => TypeInv /\ MpscInv /\ LogInv)

(* A logger whose flush loop has ended left the queue empty. *)
LEMMA DrainedAtEnd ==
    ASSUME ManyProducers, TypeInv, MpscInv, LogInv, dpc = "destroyed"
    PROVE  NothingToRead /\ Len(sunk) = Len(accepted)
  <1>1. /\ tpc = "done" /\ NothingToRead /\ cpc = "idle" /\ sunk = delivered
        /\ \A p \in Producers : pc[p] = "idle"
    BY DEF LogInv, Waits, Returned
  <1>2. /\ m_read \in Nat /\ m_write \in Nat /\ m_max_read \in Nat /\ m_read + 1 < CounterModulus
        /\ \A x \in Nat : x + 1 < CounterModulus => Inc(x) = x + 1
    BY MpscFacts DEF TypeInv, MpscInv
  <1>3. Cardinality(At({"store", "publish"})) = 0
    <2>1. At({"store", "publish"}) = {}
      BY <1>1 DEF At
    <2> QED
      BY <2>1, FS_EmptySet
  <1>4. m_max_read = m_write /\ m_read <= m_max_read /\ Len(accepted) = m_write
        /\ Len(delivered) = m_read
    BY <1>1, <1>2, <1>3 DEF MpscInv, CountsAgree, Held
  <1>5. m_read + 1 > m_max_read
    BY <1>1, <1>2 DEF NothingToRead
  <1> QED
    BY <1>1, <1>2, <1>4, <1>5

(* However many threads log, under every policy but the overwriting one: when
   the destructor returns, the queue is empty and the sinks were handed as many
   entries as log() accepted. *)
THEOREM DrainsBeforeDestroyed ==
    ASSUME ManyProducers, AddingPushes, \A pol \in Policies : pol[2] # "OverwriteWhenFull"
    PROVE  LogSpec => []DrainedBeforeDestroyed
  <1>1. LogInit => ManyClientsInv
    <2> SUFFICES ASSUME LogInit PROVE ManyClientsInv
      OBVIOUS
    <2>1. Init
      BY DEF LogInit, Init
    <2> QED
      BY <2>1, TypeInit, MpscInit, LogInvInit DEF ManyClientsInv, LogInit
  <1>2. ManyClientsInv /\ [LogNext]_logVars => ManyClientsInv'
    <2> SUFFICES ASSUME ManyClientsInv, [LogNext]_logVars PROVE ManyClientsInv'
      OBVIOUS
    <2>1. UNCHANGED policy
      BY DEF LogNext, Log, Client, Release, Push, PushStep, LoggingThread, TestExit, TryRead,
             TryReadMove, Sink, Acquire, RequestStop, Destructor, StopRelease, Join, Gone, logVars
    <2>2. CASE Adding
      <3>1. TypeInv /\ MpscInv /\ LogInv
        BY <2>2 DEF ManyClientsInv
      <3>2. [Next]_vars
        BY <2>2, <3>1, LogStepsQueue DEF LogInv
      <3>3. TypeInv' /\ MpscInv' /\ LogInv'
        BY <3>1, <3>2, TypeStep, MpscStep, LogInvStep
      <3> QED
        BY <2>1, <3>3 DEF ManyClientsInv
    <2>3. CASE ~ Adding
      BY <2>1, <2>3 DEF ManyClientsInv, Adding, AsyncPolicy
    <2> QED
      BY <2>2, <2>3
  <1>3. ManyClientsInv => DrainedBeforeDestroyed
    BY DrainedAtEnd DEF ManyClientsInv, DrainedBeforeDestroyed, Adding, AsyncPolicy
  <1> QED
    BY <1>1, <1>2, <1>3, PTL DEF LogSpec

----------------------------------------------------------------------------
(* One client *)

(* 1 while the client has signalled for an entry it has not claimed a place for *)
Coming(p) == IF lpc[p] = "push" \/ pc[p] \in Unclaimed THEN 1 ELSE 0

(* The single-threaded logger: every entry still in the queue, or on its way to
   it, is covered by a count of the semaphore, by the read the logging thread is
   about to do, or is the one entry a read came too early for. *)
Covered ==
    ThreadingPolicy = "SingleThreadedAsync" /\ tpc \in {"test_exit", "read", "acquire"} =>
        \A p \in Producers :
            Len(accepted) - Len(delivered) + Coming(p)
                <= m_signal + 1 + (IF tpc = "acquire" THEN 0 ELSE 1)

OneClientInv ==
    policy \in Policies /\ (Adding => TypeInv /\ SpscInv /\ LogInv /\ Covered)

(* The bookkeeping of the semaphore is kept up by every step: a signal is given
   before its entry is pushed, and each one leads to one more read. *)
LEMMA CoveredStep ==
    ASSUME SingleProducer, TypeInv, SpscInv, SpscInv', LogInv, Covered, [LogNext]_logVars
    PROVE  Covered'
  <1> USE DEF queue, counters, producer, consumer, history
  <1>p. PICK P \in Producers : Producers = {P}
    BY DEF SingleProducer
  <1> DEFINE A == Len(accepted)
             D == Len(delivered)
             C == Coming(P)
             R == IF tpc = "acquire" THEN 0 ELSE 1
  <1>0. LogTypeOK /\ Waits /\ TypeOK /\ InProgress
    BY DEF LogInv, TypeInv
  <1>n. A \in Nat /\ D \in Nat /\ m_signal \in Nat
    BY <1>0 DEF TypeOK, LogTypeOK
  <1>c. C \in {0, 1} /\ R \in {0, 1} /\ C' \in {0, 1} /\ R' \in {0, 1}
    BY DEF Coming
  <1>i. C \in Nat /\ R \in Nat /\ C' \in Nat /\ R' \in Nat
    BY <1>c
  <1>d. Covered <=> (ThreadingPolicy = "SingleThreadedAsync"
                       /\ tpc \in {"test_exit", "read", "acquire"}
                         => A - D + C <= m_signal + 1 + R)
    BY <1>p DEF Covered
  <1>e. Covered' <=> (ThreadingPolicy' = "SingleThreadedAsync"
                       /\ tpc' \in {"test_exit", "read", "acquire"}
                         => A' - D' + C' <= m_signal' + 1 + R')
    BY <1>p DEF Covered
  <1>s. ThreadingPolicy' = ThreadingPolicy
    BY DEF LogNext, Log, Client, Release, Push, PushStep, LoggingThread, TestExit, TryRead,
           TryReadMove, Sink, Acquire, RequestStop, Destructor, StopRelease, Join, Gone, logVars,
           ThreadingPolicy
  <1>f. SUFFICES ASSUME ThreadingPolicy = "SingleThreadedAsync",
                        tpc' \in {"test_exit", "read", "acquire"}
                 PROVE  A' - D' + C' <= m_signal' + 1 + R'
    BY <1>e, <1>s
  <1>g. ASSUME tpc \in {"test_exit", "read", "acquire"}
        PROVE  A - D + C <= m_signal + 1 + R
    BY <1>d, <1>f, <1>g
  <1>l. lpc \in [Producers -> {"ready", "release", "push"}]
        /\ pc \in [Producers -> {"idle", "increment_size", "decrement_size",
                                 "claim", "take_back", "store", "publish"}]
    BY <1>0 DEF LogTypeOK, TypeOK
  (* A step that keeps the queue's history, the semaphore and the thread's place *)
  <1>u. ASSUME UNCHANGED <<accepted, delivered, m_signal, tpc>>, C' <= C
        PROVE  A' - D' + C' <= m_signal' + 1 + R'
    <2>1. A' = A /\ D' = D /\ R' = R /\ m_signal' = m_signal
      BY <1>u
    <2>2. A - D + C <= m_signal + 1 + R
      BY <1>f, <1>g, <1>u
    <2>3. C' <= C
      BY <1>u
    <2>4. CASE C' = C
      <3> HIDE DEF A, D, C, R
      <3> QED
        BY <2>1, <2>2, <2>4
    <2>5. CASE C' = 0 /\ C = 1
      <3> HIDE DEF A, D, C, R
      <3> QED
        BY <1>i, <1>n, <2>1, <2>2, <2>5
    <2>6. (C' = C) \/ (C' = 0 /\ C = 1)
      BY <1>c, <2>3
    <2> QED
      BY <2>4, <2>5, <2>6
  <1>1. ASSUME NEW level \in EntryLevels, Log(P, level) PROVE A' - D' + C' <= m_signal' + 1 + R'
    <2>1. UNCHANGED <<pc, accepted, delivered, m_signal, tpc>> /\ lpc[P] = "ready"
          /\ (lpc' = lpc \/ lpc' = [lpc EXCEPT ![P] = "release"])
      BY <1>1, <1>f DEF Log, Returned
    <2>2. C' = C
      BY <1>l, <2>1 DEF Coming
    <2> QED
      BY <1>c, <1>u, <2>1, <2>2
  <1>2. CASE Release(P)
    <2>1. /\ UNCHANGED <<pc, accepted, delivered, tpc>> /\ lpc[P] = "release" /\ lpc'[P] = "push"
          /\ m_signal' = m_signal + 1
      BY <1>2, <1>l DEF Release
    <2>2. pc[P] = "idle"
      BY <1>0, <2>1 DEF Waits
    <2>3. C = 0 /\ C' = 1
      BY <2>1, <2>2 DEF Coming, Unclaimed
    <2>4. A' = A /\ D' = D /\ R' = R /\ A - D + C <= m_signal + 1 + R
      BY <1>f, <1>g, <2>1
    <2> HIDE DEF A, D, C, R
    <2> QED
      BY <1>c, <1>n, <2>1, <2>3, <2>4
  <1>3. CASE Push(P)
    <2>1. /\ UNCHANGED <<accepted, delivered, tpc, m_signal>> /\ lpc[P] = "push"
      BY <1>3 DEF Push, CallPush
    <2>2. C = 1
      BY <2>1 DEF Coming
    <2>3. C' <= C
      BY <1>c, <2>2
    <2> QED
      BY <1>u, <2>1, <2>3
  <1>4. CASE PushStep(P)
    <2>1. UNCHANGED <<delivered, tpc, m_signal, lpc>> /\ ProducerStep(P)
      BY <1>4
      DEF PushStep, ProducerStep, IncrementSize, DecrementSize, Claim, TakeBack, Store, Publish
    <2>2. lpc[P] = "ready"
      BY <1>0, <1>l, <2>1
      DEF Waits, ProducerStep, IncrementSize, DecrementSize, Claim, TakeBack, Store, Publish
    <2>3. CASE Claim(P)
      <3>1. /\ pc[P] = "claim" /\ pc'[P] = "store" /\ accepted' = Append(accepted, value[P])
        BY <1>l, <2>3 DEF Claim
      <3>2. A' = A + 1
        BY <1>0, <3>1, AppendProperties DEF TypeOK, InProgress
      <3>3. C = 1 /\ C' = 0 /\ D' = D /\ R' = R
        BY <2>1, <2>2, <3>1 DEF Coming, Unclaimed
      <3>4. A - D + C <= m_signal + 1 + R
        BY <1>f, <1>g, <2>1
      <3> HIDE DEF A, D, C, R
      <3> QED
        BY <1>c, <1>n, <2>1, <3>2, <3>3, <3>4
    <2>4. CASE IncrementSize(P) \/ DecrementSize(P) \/ Store(P) \/ Publish(P)
      <3>1. UNCHANGED accepted
        BY <2>4 DEF IncrementSize, DecrementSize, Store, Publish
      <3>2. pc'[P] \in Unclaimed => pc[P] \in Unclaimed
        BY <1>l, <2>4 DEF IncrementSize, DecrementSize, Store, Publish, Unclaimed
      <3>3. C' <= C
        BY <2>1, <2>2, <3>2 DEF Coming
      <3> QED
        BY <1>u, <2>1, <3>1, <3>3
    <2>5. CASE TakeBack(P)
      BY <2>5 DEF SpscInv, CountersAgree, TakeBack
    <2> QED
      BY <2>1, <2>3, <2>4, <2>5 DEF ProducerStep
  <1>5. CASE TestExit
    <2>1. UNCHANGED <<pc, lpc, accepted, delivered, m_signal>> /\ tpc = "test_exit"
      BY <1>5 DEF TestExit
    <2>2. A' = A /\ D' = D /\ C' = C /\ R = 1 /\ R' = 1 /\ A - D + C <= m_signal + 1 + R
      <3>1. tpc' = "read" \/ tpc' = "flush"
        BY <1>5 DEF TestExit
      <3> QED
        BY <1>f, <1>g, <2>1, <3>1 DEF Coming
    <2> HIDE DEF A, D, C, R
    <2> QED
      BY <1>c, <1>n, <2>1, <2>2
  <1>6. CASE TryRead
    <2>1. UNCHANGED <<pc, lpc, accepted, delivered, m_signal>> /\ cpc = "idle"
      BY <1>6 DEF TryRead, PopFront
    <2>2. CASE ~ NothingToRead
      <3>1. UNCHANGED tpc /\ C' = C
        BY <1>6, <2>1, <2>2 DEF TryRead, Coming
      <3> QED
        BY <1>c, <1>u, <2>1, <3>1
    <2>3. CASE NothingToRead
      (* The queue holds at most the entry that is being pushed. *)
      <3>1. /\ m_read \in Nat /\ m_max_read \in Nat /\ m_write \in Nat
            /\ m_write + 1 < CounterModulus /\ CounterModulus \in Nat
            /\ \A x \in Nat : x + 1 < CounterModulus => Inc(x) = x + 1
        BY SpscFacts, QueueAssumption
      <3>2. /\ A = m_write /\ D = m_read /\ m_read <= m_max_read
            /\ m_write = m_max_read + (IF pc[P] \in {"store", "publish"} THEN 1 ELSE 0)
        <4>1. CountersAgree /\ ContentsAgree /\ Held = 0
          BY <2>1 DEF SpscInv, Held
        <4>2. A = m_write /\ D = m_read
          BY <3>1, <4>1 DEF ContentsAgree
        <4>3. m_read <= m_max_read
          BY <4>1 DEF CountersAgree
        <4>4. m_write = m_max_read + (IF pc[P] \in {"store", "publish"} THEN 1 ELSE 0)
          BY <4>1 DEF CountersAgree
        <4> QED
          BY <4>2, <4>3, <4>4
      <3>3. m_read = m_max_read
        <4>1. Inc(m_read) = m_read + 1
          BY <3>1, <3>2
        <4> QED
          BY <2>3, <3>1, <3>2, <4>1 DEF NothingToRead
      <3>4. A - D + C <= 1
        <4>1. CASE pc[P] \in {"store", "publish"}
          <5>1. C = 0
            BY <1>0, <4>1 DEF Waits, Coming, Unclaimed
          <5> HIDE DEF C
          <5> QED
            BY <3>1, <3>2, <3>3, <4>1, <5>1
        <4>2. CASE pc[P] \notin {"store", "publish"}
          BY <1>c, <3>1, <3>2, <3>3, <4>2
        <4> QED
          BY <4>1, <4>2
      <3>5. A' = A /\ D' = D /\ C' = C /\ m_signal' = m_signal
        BY <2>1 DEF Coming
      <3>6. CASE R' = 0
        <4> HIDE DEF A, D, C, R
        <4> QED
          BY <1>i, <1>n, <3>4, <3>5, <3>6
      <3>7. CASE R' = 1
        <4> HIDE DEF A, D, C, R
        <4> QED
          BY <1>i, <1>n, <3>4, <3>5, <3>7
      <3> QED
        BY <1>c, <3>6, <3>7
    <2> QED
      BY <2>2, <2>3
  <1>7. CASE TryReadMove
    <2>1. UNCHANGED <<pc, lpc, accepted, delivered, m_signal, tpc>>
      BY <1>7 DEF TryReadMove, MoveOut
    <2>2. C' = C
      BY <2>1 DEF Coming
    <2> QED
      BY <1>c, <1>u, <2>1, <2>2
  <1>8. CASE Sink
    <2>1. /\ UNCHANGED <<pc, lpc, accepted, m_signal>> /\ cpc = "release"
          /\ delivered' = Append(delivered, popped)
          /\ tpc' = IF tpc = "read" THEN "acquire" ELSE "flush"
      BY <1>8 DEF Sink, ReleaseSlot
    <2>2. tpc = "read" /\ tpc' = "acquire"
      BY <1>f, <2>1
    <2>3. D' = D + 1
      BY <1>0, <2>1, AppendProperties DEF TypeOK, InProgress
    <2>4. A' = A /\ C' = C /\ R = 1 /\ R' = 0 /\ A - D + C <= m_signal + 1 + R
      BY <1>g, <2>1, <2>2 DEF Coming
    <2> HIDE DEF A, D, C, R
    <2> QED
      BY <1>c, <1>n, <2>1, <2>3, <2>4
  <1>9. CASE Acquire
    <2>1. /\ UNCHANGED <<pc, lpc, accepted, delivered>> /\ m_signal' = m_signal - 1
          /\ tpc = "acquire" /\ tpc' = "test_exit"
      BY <1>9 DEF Acquire
    <2>2. A' = A /\ D' = D /\ C' = C /\ R = 0 /\ R' = 1 /\ A - D + C <= m_signal + 1 + R
      BY <1>g, <2>1 DEF Coming
    <2> HIDE DEF A, D, C, R
    <2> QED
      BY <1>c, <1>n, <2>1, <2>2
  <1>10. CASE RequestStop \/ Join \/ UNCHANGED logVars
    <2>1. UNCHANGED <<pc, lpc, accepted, delivered, m_signal, tpc>>
      BY <1>10 DEF RequestStop, Join, logVars, vars
    <2>2. C' = C
      BY <2>1 DEF Coming
    <2> QED
      BY <1>c, <1>u, <2>1, <2>2
  <1>11. CASE StopRelease
    <2>1. UNCHANGED <<pc, lpc, accepted, delivered, tpc>> /\ m_signal' = m_signal + 1
      BY <1>11 DEF StopRelease
    <2>2. A' = A /\ D' = D /\ C' = C /\ R' = R /\ A - D + C <= m_signal + 1 + R
      BY <1>f, <1>g, <2>1 DEF Coming
    <2> HIDE DEF A, D, C, R
    <2> QED
      BY <1>c, <1>n, <2>1, <2>2
  <1> QED
    BY <1>p, <1>1, <1>2, <1>3, <1>4, <1>5, <1>6, <1>7, <1>8, <1>9, <1>10, <1>11
    DEF LogNext, Client, LoggingThread, Destructor, Gone

(* A logger with one client whose policy only adds: the invariants of its queue
   hold in every reachable state, and so does the bookkeeping of m_signal that
   log() and message_thread_function() share. *)
THEOREM OneClientInvariant ==
    ASSUME SingleProducer, AddingPushes
    PROVE  LogSpec => []OneClientInv
  <1>1. LogInit => OneClientInv
    <2> SUFFICES ASSUME LogInit PROVE OneClientInv
      OBVIOUS
    <2>1. Init /\ policy \in Policies
      BY DEF LogInit, Init
    <2>2. Covered
      <3>1. /\ m_signal = 0 /\ Len(accepted) = 0 /\ Len(delivered) = 0 /\ tpc = "test_exit"
            /\ \A p \in Producers : Coming(p) = 0
        BY DEF LogInit, InitEmpty, Idle, Coming, Unclaimed
      <3> QED
        BY <3>1 DEF Covered
    <2> QED
      BY <2>1, <2>2, TypeInit, SpscInit, LogInvInit DEF OneClientInv
  <1>2. OneClientInv /\ [LogNext]_logVars => OneClientInv'
    <2> SUFFICES ASSUME OneClientInv, [LogNext]_logVars PROVE OneClientInv'
      OBVIOUS
    <2>1. UNCHANGED policy
      BY DEF LogNext, Log, Client, Release, Push, PushStep, LoggingThread, TestExit, TryRead,
             TryReadMove, Sink, Acquire, RequestStop, Destructor, StopRelease, Join, Gone, logVars
    <2>2. CASE Adding
      <3>1. TypeInv /\ SpscInv /\ LogInv /\ Covered
        BY <2>2 DEF OneClientInv
      <3>2. [Next]_vars
        BY <2>2, <3>1, LogStepsQueue DEF LogInv
      <3>3. TypeInv' /\ SpscInv' /\ LogInv'
        BY <3>1, <3>2, TypeStep, SpscStep, LogInvStep
      <3>4. Covered'
        BY <3>1, <3>3, CoveredStep
      <3> QED
        BY <2>1, <3>3, <3>4 DEF OneClientInv
    <2>3. CASE ~ Adding
      BY <2>1, <2>3 DEF OneClientInv, Adding, AsyncPolicy
    <2> QED
      BY <2>2, <2>3
  <1> QED
    BY <1>1, <1>2, PTL DEF LogSpec

(* One client: when the destructor of the single-threaded logger returns, the
   sinks were handed every entry log() accepted, once and in order, for every
   policy that does not overwrite. *)
THEOREM FlushesBeforeDestroyed ==
    ASSUME SingleProducer, AddingPushes
    PROVE  LogSpec => []FlushedBeforeDestroyed
  <1>1. OneClientInv => FlushedBeforeDestroyed
    <2> SUFFICES ASSUME TypeInv, SpscInv, LogInv, dpc = "destroyed" PROVE sunk = accepted
      BY DEF OneClientInv, FlushedBeforeDestroyed, Adding
    <2>1. PICK p \in Producers : Producers = {p}
      BY DEF SingleProducer
    <2>2. NothingToRead /\ cpc = "idle" /\ sunk = delivered /\ pc[p] = "idle"
      BY DEF LogInv, Waits, Returned
    <2>3. /\ m_read \in Nat /\ m_write \in Nat /\ m_max_read \in Nat /\ CounterModulus \in Nat
          /\ m_write + 1 < CounterModulus
          /\ \A x \in Nat : x + 1 < CounterModulus => Inc(x) = x + 1
      BY SpscFacts, QueueAssumption
    <2>4. m_max_read = m_write /\ m_read <= m_max_read /\ Len(accepted) = m_write
          /\ Len(delivered) = m_read
      BY <2>2, <2>3 DEF SpscInv, CountersAgree, ContentsAgree, Held
    <2>5. m_read = m_max_read
      <3>1. Inc(m_read) = m_read + 1
        BY <2>3, <2>4
      <3> QED
        BY <2>2, <2>3, <2>4, <3>1 DEF NothingToRead
    <2>6. /\ delivered \in Seq(Element \cup {Vacant}) /\ accepted \in Seq(Element \cup {Vacant})
          /\ \A i \in 1..Len(delivered) : delivered[i] = accepted[i]
      BY DEF TypeInv, TypeOK, SpscInv, ContentsAgree
    <2>7. delivered = accepted
      BY <2>4, <2>5, <2>6, SeqEqual
    <2> QED
      BY <2>2, <2>7
  <1> QED
    BY <1>1, OneClientInvariant, PTL

(* One client: although log() signals before it pushes, the sleeping logging
   thread has left at most one entry in the queue, for every capacity and every
   interleaving of signals, pushes and reads. *)
THEOREM StrandsAtMostOne ==
    ASSUME SingleProducer, AddingPushes, \A pol \in Policies : pol[2] # "OverwriteWhenFull"
    PROVE  LogSpec => []AtMostOneStranded
  <1>1. OneClientInv => AtMostOneStranded
    <2> SUFFICES ASSUME OneClientInv, Asleep, ThreadingPolicy = "SingleThreadedAsync"
                 PROVE  Len(accepted) <= Len(sunk) + 1
      BY DEF AtMostOneStranded
    <2>1. TypeInv /\ SpscInv /\ LogInv /\ Covered
      BY DEF OneClientInv, Adding, AsyncPolicy
    <2>2. PICK p \in Producers : Producers = {p}
      BY DEF SingleProducer
    <2>3. Coming(p) = 0 /\ tpc = "acquire" /\ m_signal = 0 /\ sunk = delivered
      BY <2>1 DEF Asleep, Returned, Coming, Unclaimed, LogInv
    <2>4. Len(accepted) \in Nat /\ Len(delivered) \in Nat
      BY <2>1 DEF TypeInv, TypeOK
    <2>5. Len(accepted) - Len(delivered) + 0 <= 0 + 1 + 0
      BY <2>1, <2>2, <2>3 DEF Covered
    <2> QED
      BY <2>3, <2>4, <2>5
  <1> QED
    BY <1>1, OneClientInvariant, PTL
=============================================================================
