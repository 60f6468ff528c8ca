------------------------------ MODULE SyncLogger ------------------------------
(***************************************************************************)
(* The synchronous loggers, reached through GlobalLog.  LogBase            *)
(* <MultiThreaded> keeps its Sinks in a ReadWriteLock and writes an entry  *)
(* to each of them under one write guard; LogBase<SingleThreaded> has no   *)
(* lock, and one thread that uses it.  An entry is <<thread, number,       *)
(* level>>; a sink is its level and what it has printed.  Logger l keeps   *)
(* its Sinks in the lock l.                                                *)
(*                                                                         *)
(* GlobalLog hands out a plain pointer to the logger and synchronises      *)
(* nothing: set_global_logger is called while no thread logs, as the       *)
(* benchmark does.                                                         *)
(***************************************************************************)
EXTENDS ReadWriteLock, Sequences

CONSTANTS
    Levels,          \* levels of entries, numbered as enum class Level
    MINIMUM_LEVEL,   \* of the loggers
    SinkLevels,      \* SinkLevels[k]: m_log_level of the k-th sink
    MaxEntries       \* bound: entries a thread logs

ASSUME SyncLogAssumption ==
    /\ Levels \subseteq Nat
    /\ MINIMUM_LEVEL \in Nat
    /\ SinkLevels \in Seq(Nat)
    /\ MaxEntries \in Nat
    /\ GuardVars # {}

VARIABLES
    logPolicy,       \* ThreadingPolicy of the loggers
    globalLog,       \* GLOBAL_LOGGER
    logStep,         \* logStep[t]: where a thread is in log()
    logCount,        \* logCount[t]: entries it has logged
    sinkOut,         \* sinkOut[l][k]: what the k-th sink of l has sent to its file or stream
    logTaken         \* history: the entries a logger took on, in order

syncLogVars == <<logPolicy, globalLog, logStep, logCount, sinkOut, logTaken>>

NumSinks == Len(SinkLevels)
TheGuard == CHOOSE g \in GuardVars : TRUE    \* sinks_guard

NotLogging == [at |-> "out", logger |-> NoLock, entry |-> <<>>, next |-> 0]
Level(entry) == entry[3]

(* message, trace, info, warn and error: an entry of the level they name. *)
NewEntry(t, level) == <<t, logCount[t], level>>

(* SinkBase::sink: an entry at or above the level of the sink is printed. *)
Accepts(k, entry) == Level(entry) >= SinkLevels[k]
Printed(out, k, entry) == IF Accepts(k, entry) THEN Append(out, entry) ELSE out

(* The loggers take on what is above their minimum level. *)
Takes(entry) == Level(entry) > MINIMUM_LEVEL

(* MESSAGE, TRACE, INFO, WARN and ERROR get the global logger and call its *)
(* log() with an entry of their level; without a logger, or below the      *)
(* minimum, that is all.                                                   *)
LogIgnored(t, level) ==
    /\ logStep[t] = NotLogging
    /\ globalLog = NoLock \/ ~Takes(NewEntry(t, level))
    /\ logCount[t] < MaxEntries
    /\ logCount' = [logCount EXCEPT ![t] = @ + 1]
    /\ UNCHANGED <<lockVars, logPolicy, globalLog, logStep, sinkOut, logTaken>>

(* log() of the MultiThreaded logger: m_sinks.write() ... *)
LogCall(t, level) ==
    LET entry == NewEntry(t, level)
    IN  /\ logPolicy = "MultiThreaded"
        /\ logStep[t] = NotLogging
        /\ globalLog # NoLock
        /\ Takes(entry)
        /\ logCount[t] < MaxEntries
        /\ logCount' = [logCount EXCEPT ![t] = @ + 1]
        /\ logStep' = [logStep EXCEPT ![t] =
                [at |-> "lock", logger |-> globalLog, entry |-> entry, next |-> 1]]
        /\ LockWrite(t, globalLog, TheGuard)
        /\ UNCHANGED <<logPolicy, globalLog, sinkOut, logTaken>>

(* ... which returns, ...                                                  *)
LogLocked(t) ==
    /\ logStep[t].at = "lock"
    /\ WriteReturns(t)
    /\ logStep' = [logStep EXCEPT ![t].at = "sinks"]
    /\ logTaken' = [logTaken EXCEPT ![logStep[t].logger] = Append(@, logStep[t].entry)]
    /\ UNCHANGED <<logPolicy, globalLog, logCount, sinkOut>>

(* Mutant of LogSink: the guard is destroyed before the sinks are done. *)
LogSink_Unguarded(t) ==
    LET l == logStep[t].logger
        k == logStep[t].next
    IN  /\ logStep[t].at = "sinks"
        /\ k <= NumSinks
        /\ sinkOut' = [sinkOut EXCEPT ![l][k] = Printed(@, k, logStep[t].entry)]
        /\ logStep' = [logStep EXCEPT ![t].next = k + 1]
        /\ IF k = 1 /\ logPolicy = "MultiThreaded"
           THEN lockMutex' = [lockMutex EXCEPT ![l] = Unlocked(@, "write")]
           ELSE UNCHANGED lockMutex
        /\ UNCHANGED <<lockData, lockGuard, lockCall, logPolicy, globalLog, logCount, logTaken>>

(* ... the sinks, one after the other ...                                  *)
LogSink(t) ==
    LET l == logStep[t].logger
        k == logStep[t].next
    IN  /\ logStep[t].at = "sinks"
        /\ k <= NumSinks
        /\ sinkOut' = [sinkOut EXCEPT ![l][k] = Printed(@, k, logStep[t].entry)]
        /\ logStep' = [logStep EXCEPT ![t].next = k + 1]
        /\ UNCHANGED <<lockVars, logPolicy, globalLog, logCount, logTaken>>

(* ... and the guard is destroyed on the way out. *)
LogReturn(t) ==
    /\ logStep[t].at = "sinks"
    /\ logStep[t].next > NumSinks
    /\ logStep' = [logStep EXCEPT ![t] = NotLogging]
    /\ IF logPolicy = "MultiThreaded"
       THEN GuardDestroy(t, TheGuard)
       ELSE UNCHANGED lockVars
    /\ UNCHANGED <<logPolicy, globalLog, logCount, sinkOut, logTaken>>

(* log() of the SingleThreaded logger goes straight to its sinks. *)
LogCallUnlocked(t, level) ==
    LET entry == NewEntry(t, level)
    IN  /\ logPolicy = "SingleThreaded"
        /\ \A u \in Threads \ {t} : logCount[u] = 0
        /\ logStep[t] = NotLogging
        /\ globalLog # NoLock
        /\ Takes(entry)
        /\ logCount[t] < MaxEntries
        /\ logCount' = [logCount EXCEPT ![t] = @ + 1]
        /\ logStep' = [logStep EXCEPT ![t] =
                [at |-> "sinks", logger |-> globalLog, entry |-> entry, next |-> 1]]
        /\ logTaken' = [logTaken EXCEPT ![globalLog] = Append(@, entry)]
        /\ UNCHANGED <<lockVars, logPolicy, globalLog, sinkOut>>

(* set_global_logger: a logger with new sinks; the one before is deleted.  *)
SetGlobalLogger(l) ==
    /\ \A t \in Threads : logStep[t] = NotLogging
    /\ l # globalLog
    /\ logTaken[l] = <<>>
    /\ globalLog' = l
    /\ lockMutex' = [k \in Locks |->
            [alive |-> k = l, exclusive |-> FALSE, shared |-> 0]]
    /\ UNCHANGED <<lockData, lockGuard, lockCall, logPolicy, logStep, logCount,
                   sinkOut, logTaken>>

SyncLogInit ==
    /\ LockInit
    /\ logPolicy \in {"SingleThreaded", "MultiThreaded"}
    /\ globalLog = NoLock
    /\ logStep = [t \in Threads |-> NotLogging]
    /\ logCount = [t \in Threads |-> 0]
    /\ sinkOut = [l \in Locks |-> [k \in 1 .. NumSinks |-> <<>>]]
    /\ logTaken = [l \in Locks |-> <<>>]

SyncLogNext ==
    \/ \E t \in Threads, level \in Levels :
        \/ LogIgnored(t, level)
        \/ LogCall(t, level)
        \/ LogCallUnlocked(t, level)
    \/ \E t \in Threads : LogLocked(t) \/ LogSink(t) \/ LogReturn(t)
    \/ \E l \in Locks : SetGlobalLogger(l)

(* The operating system runs every thread and wakes one that waits for a   *)
(* mutex nobody has.                                                       *)
SyncLogFairness ==
    \A t \in Threads :
        WF_<<lockVars, syncLogVars>>(LogLocked(t) \/ LogSink(t) \/ LogReturn(t))

SyncLogSpec ==
    SyncLogInit /\ [][SyncLogNext]_<<lockVars, syncLogVars>> /\ SyncLogFairness

-----------------------------------------------------------------------------
(* Thread t has yet to print with the k-th sink of logger l. *)
Owes(t, l, k) ==
    LET s == logStep[t]
    IN  s.at = "sinks" /\ s.logger = l /\ s.next <= k /\ Accepts(k, s.entry)

(* out is what the k-th sink prints of the entries in taken: those at or   *)
(* above its level, each at the place it has among them.                   *)
IsOutput(out, taken, k) ==
    LET due == {i \in 1 .. Len(taken) : Accepts(k, taken[i])}
    IN  /\ Len(out) = Cardinality(due)
        /\ \A i \in due : out[Cardinality({j \in due : j <= i})] = taken[i]

(* Every sink prints the entries its logger took on in the order in which  *)
(* the logger took them, each once, but for those below its level: threads *)
(* that log at the same time never interleave between two sinks, and none  *)
(* of them is ahead of another in one sink and behind it in the next       *)
(* (Logger.h:909, :923).                                                   *)
SinksAgree ==
    \A l \in Locks, k \in 1 .. NumSinks :
        \/ IsOutput(sinkOut[l][k], logTaken[l], k)
        \/ \E t \in Threads :
            Owes(t, l, k) /\ IsOutput(Append(sinkOut[l][k], logStep[t].entry), logTaken[l], k)

(* A thread that logs returns from the call: every guard is destroyed, and *)
(* the mutex is never left locked (ScopedLockGuard.h:94).                  *)
SyncLogReturns == \A t \in Threads : (logStep[t] # NotLogging) ~> (logStep[t] = NotLogging)
=============================================================================
