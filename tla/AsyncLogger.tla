----------------------------- MODULE AsyncLogger -----------------------------
(***************************************************************************)
(* The asynchronous loggers of include/Hyperion/Logger.h: LogBase for      *)
(* ThreadingPolicy::SingleThreadedAsync and ::MultiThreadedAsync.  Client  *)
(* threads (the Producers of the queue) call log(), which puts an entry    *)
(* into a logging::Queue; the logging thread takes entries out of it and   *)
(* hands them to the sinks, and sleeps on a semaphore between reads; the   *)
(* destructor asks that thread to stop, wakes it and joins it.             *)
(*                                                                         *)
(* The queue is LockFreeQueue, step by step: every action below that       *)
(* touches it takes one of its actions.  logging::Queue adds only the      *)
(* choice of the push operation.                                           *)
(***************************************************************************)
EXTENDS LockFreeQueue

CONSTANTS
    Policies,          \* pairs <<ThreadingPolicy, AsyncPolicy>>
    MinimumLevel,      \* MINIMUM_LEVEL, as the number of the enumerator
    EntryLevels        \* the levels clients log at

ASSUME PolicyAssumption ==
    /\ Policies \subseteq {"SingleThreadedAsync", "MultiThreadedAsync"}
            \X {"DropWhenFull", "OverwriteWhenFull", "BlockWhenFull"}
    \* the static_assert of logging::Policy
    /\ <<"MultiThreadedAsync", "OverwriteWhenFull">> \notin Policies
    /\ MinimumLevel \in 0..5 /\ EntryLevels \subseteq 0..5

VARIABLES
    policy,       \* the template arguments; no step changes them
    m_signal,     \* count of the semaphore
    m_exit_flag,  \* the stop request
    lpc,          \* per client: where its log() is
    tpc,          \* where the logging thread is
    dpc,          \* where the destructor is
    sunk          \* what the sinks were handed, in order

ThreadingPolicy == policy[1]
AsyncPolicy == policy[2]

queue  == <<counters, m_buffer, m_capacity, producer, consumer, history>>
logVars == <<vars, policy, m_signal, m_exit_flag, lpc, tpc, dpc, sunk>>

LogInit ==
    /\ InitEmpty
    /\ policy \in Policies
    /\ m_signal = 0 /\ m_exit_flag = FALSE
    /\ lpc = [p \in Producers |-> "ready"]
    /\ tpc = "test_exit"
    /\ dpc = "alive"
    /\ sunk = <<>>

----------------------------------------------------------------------------
(* log(entry), on a client thread *)

(* get_queue_policy() and Queue::push() for each QueuePolicy *)
PushOperation ==
    CASE AsyncPolicy = "DropWhenFull"      -> "try_push_back"
      [] AsyncPolicy = "OverwriteWhenFull" -> "force_push_back"
      [] AsyncPolicy = "BlockWhenFull"     -> "push_back"

Returned(p) == lpc[p] = "ready" /\ pc[p] = "idle"

(* "Using a single thread logger across multiple threads is unsafe": then one
   client logs.  The bound MaxPushes is on what all clients log. *)
MayLog(p) ==
    IF ThreadingPolicy = "SingleThreadedAsync"
       THEN p = (CHOOSE q \in Producers : TRUE) /\ issued[p] < MaxPushes
       ELSE issued[p] < MaxPushes \div Cardinality(Producers)

(* Mutant of Log: no policy signals. *)
Log_Unsignalled(p, level) ==
    /\ dpc = "alive" /\ Returned(p) /\ MayLog(p)
    /\ lpc' = IF level > MinimumLevel THEN [lpc EXCEPT ![p] = "push"] ELSE lpc
    /\ UNCHANGED <<policy, queue, m_signal, m_exit_flag, tpc, dpc, sunk>>

(* An entry at or below MINIMUM_LEVEL is dropped and Ok() returned.  Only the
   single-threaded logger signals, and it does so before it pushes. *)
Log(p, level) ==
    /\ dpc = "alive" /\ Returned(p) /\ MayLog(p)
    /\ lpc' = IF level > MinimumLevel
                 THEN [lpc EXCEPT ![p] = IF ThreadingPolicy = "SingleThreadedAsync"
                                            THEN "release" ELSE "push"]
                 ELSE lpc
    /\ UNCHANGED <<policy, queue, m_signal, m_exit_flag, tpc, dpc, sunk>>

(* m_signal.release(1) *)
Release(p) ==
    /\ lpc[p] = "release"
    /\ m_signal' = m_signal + 1
    /\ lpc' = [lpc EXCEPT ![p] = "push"]
    /\ UNCHANGED <<policy, queue, m_exit_flag, tpc, dpc, sunk>>

(* m_queue.push(entry); log() returns when the push does, with QueueingError
   if the push was refused. *)
Push(p) ==
    /\ lpc[p] = "push"
    /\ CallPush(p, PushOperation)
    /\ lpc' = [lpc EXCEPT ![p] = "ready"]
    /\ UNCHANGED <<policy, m_signal, m_exit_flag, tpc, dpc, sunk>>

PushStep(p) ==
    /\ ProducerStep(p)
    /\ UNCHANGED <<policy, m_signal, m_exit_flag, lpc, tpc, dpc, sunk>>

Client(p) == Release(p) \/ Push(p) \/ PushStep(p)

----------------------------------------------------------------------------
(* message_thread_function() *)

(* Mutant of TestExit: the thread ends without flushing the queue. *)
TestExit_NoFlush ==
    /\ tpc = "test_exit"
    /\ tpc' = IF m_exit_flag THEN "done" ELSE "read"
    /\ UNCHANGED <<policy, queue, m_signal, m_exit_flag, lpc, dpc, sunk>>

TestExit ==
    /\ tpc = "test_exit"
    /\ tpc' = IF m_exit_flag THEN "flush" ELSE "read"
    /\ UNCHANGED <<policy, queue, m_signal, m_exit_flag, lpc, dpc, sunk>>

(* try_read(): in the loop an empty queue leads to the semaphore, in the
   flush it ends the thread. *)
TryRead ==
    /\ tpc \in {"read", "flush"} /\ cpc = "idle"
    /\ PopFront
    /\ tpc' = IF ~ NothingToRead THEN tpc
              ELSE IF tpc = "read" THEN "acquire" ELSE "done"
    /\ UNCHANGED <<policy, m_signal, m_exit_flag, lpc, dpc, sunk>>

TryReadMove ==
    /\ MoveOut
    /\ UNCHANGED <<policy, m_signal, m_exit_flag, lpc, tpc, dpc, sunk>>

(* The read returns and for_each hands the entry to the sinks, which only
   this thread uses. *)
Sink ==
    /\ ReleaseSlot
    /\ sunk' = Append(sunk, popped)
    /\ tpc' = IF tpc = "read" THEN "acquire" ELSE "flush"
    /\ UNCHANGED <<policy, m_signal, m_exit_flag, lpc, dpc>>

(* m_signal.acquire() *)
Acquire ==
    /\ tpc = "acquire" /\ m_signal > 0
    /\ m_signal' = m_signal - 1
    /\ tpc' = "test_exit"
    /\ UNCHANGED <<policy, queue, m_exit_flag, lpc, dpc, sunk>>

LoggingThread == TestExit \/ TryRead \/ TryReadMove \/ Sink \/ Acquire

----------------------------------------------------------------------------
(* ~LogBase(): the owner destroys the logger when no log() is in progress. *)

RequestStop ==
    /\ dpc = "alive" /\ \A p \in Producers : Returned(p)
    /\ m_exit_flag' = TRUE
    /\ dpc' = "release"
    /\ UNCHANGED <<policy, queue, m_signal, lpc, tpc, sunk>>

(* Mutant of StopRelease: the stop request does not wake the thread. *)
StopRelease_Silent ==
    /\ dpc = "release"
    /\ dpc' = "join"
    /\ UNCHANGED <<policy, queue, m_signal, m_exit_flag, lpc, tpc, sunk>>

StopRelease ==
    /\ dpc = "release"
    /\ m_signal' = m_signal + 1
    /\ dpc' = "join"
    /\ UNCHANGED <<policy, queue, m_exit_flag, lpc, tpc, sunk>>

Join ==
    /\ dpc = "join" /\ tpc = "done"
    /\ dpc' = "destroyed"
    /\ UNCHANGED <<policy, queue, m_signal, m_exit_flag, lpc, tpc, sunk>>

Destructor == StopRelease \/ Join

(* Nothing is left to do. *)
Gone == dpc = "destroyed" /\ UNCHANGED logVars

----------------------------------------------------------------------------
LogNext ==
    \/ \E p \in Producers : (\E level \in EntryLevels : Log(p, level)) \/ Client(p)
    \/ LoggingThread
    \/ RequestStop
    \/ Destructor
    \/ Gone

LogSpec == LogInit /\ [][LogNext]_logVars

(* A client inside log(), the logging thread and a destructor that has
   started keep running.  Nobody is obliged to log or to destroy. *)
LogFairness ==
    /\ \A p \in Producers : WF_logVars(Client(p))
    /\ WF_logVars(LoggingThread)
    /\ WF_logVars(Destructor)

LogFairSpec == LogSpec /\ LogFairness

----------------------------------------------------------------------------
(* Properties *)

(* When the destructor of the single-threaded logger returns, every entry that
   log() accepted has been handed to the sinks, in order: the flush loop leaves
   nothing behind.  (A policy that overwrites gives up entries on purpose.) *)
FlushedBeforeDestroyed ==
    ThreadingPolicy = "SingleThreadedAsync" /\ AsyncPolicy # "OverwriteWhenFull"
        => (dpc = "destroyed" => sunk = accepted)

(* When the destructor returns the queue is empty and as many entries were
   handed to the sinks as were accepted. *)
DrainedBeforeDestroyed ==
    dpc = "destroyed" => NothingToRead /\ Len(sunk) = Len(accepted)

(* The logging thread sleeps and no log() is in progress. *)
Asleep == tpc = "acquire" /\ m_signal = 0 /\ \A p \in Producers : Returned(p)

(* The sleeping logging thread of a single-threaded logger has left at most one
   entry in the queue, although log() signals before it pushes.  (The
   multi-threaded logger does not signal at all.) *)
AtMostOneStranded ==
    Asleep /\ ThreadingPolicy = "SingleThreadedAsync" => Len(accepted) <= Len(sunk) + 1

(* Every call of log() returns. *)
LogReturns == \A p \in Producers : ~ Returned(p) ~> Returned(p)

(* The destructor returns: the stop request always wakes the logging thread. *)
DestructorReturns == dpc # "alive" ~> dpc = "destroyed"

(* Every accepted entry is handed to the sinks. *)
EveryEntryIsSunk ==
    \A n \in 1..(MaxPushes * Cardinality(Producers)) :
        Len(accepted) >= n ~> Len(sunk) >= n
=============================================================================
