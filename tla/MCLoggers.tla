------------------------------ MODULE MCLoggers ------------------------------
(* The asynchronous loggers, the synchronous loggers, and the lock they keep *)
(* their sinks in: a behaviour is about one of the three and leaves the      *)
(* others as they are.                                                       *)
EXTENDS MCAsyncLogger, SyncLogger

VARIABLE subject

MCSinkLevels == <<2, 3>>

MCInit ==
    /\ subject \in {"AsyncLogger", "ReadWriteLock", "SyncLogger"}
    /\ LogInit
    /\ SyncLogInit
    /\ subject # "AsyncLogger" => policy = CHOOSE p \in MCPolicies : TRUE
    /\ subject # "SyncLogger" => logPolicy = "MultiThreaded"

(* A program may stop taking locks and logging synchronously at any time. *)
NobodyCalls == subject # "AsyncLogger" /\ UNCHANGED <<logVars, lockVars, syncLogVars>>

MCNext ==
    /\ UNCHANGED subject
    /\ \/ subject = "AsyncLogger" /\ LogNext /\ UNCHANGED <<lockVars, syncLogVars>>
       \/ subject = "ReadWriteLock" /\ LockNext /\ UNCHANGED <<logVars, syncLogVars>>
       \/ subject = "SyncLogger" /\ SyncLogNext /\ UNCHANGED logVars
       \/ NobodyCalls

(* LogFairness, of the behaviours that are about the asynchronous loggers. *)
MCLogFairness ==
    /\ \A p \in Producers : WF_logVars(subject = "AsyncLogger" /\ Client(p))
    /\ WF_logVars(subject = "AsyncLogger" /\ LoggingThread)
    /\ WF_logVars(subject = "AsyncLogger" /\ Destructor)

MCSpec ==
    /\ MCInit
    /\ [][MCNext]_<<subject, logVars, lockVars, syncLogVars>>
    /\ MCLogFairness
    /\ SyncLogFairness
=============================================================================
