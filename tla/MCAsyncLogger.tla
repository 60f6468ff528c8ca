---------------------------- MODULE MCAsyncLogger ----------------------------
(* AsyncLogger on small instances. *)
EXTENDS AsyncLogger

(* The policies under which log() and the destructor return. *)
MCPolicies ==
    {"SingleThreadedAsync"} \X {"DropWhenFull", "OverwriteWhenFull", "BlockWhenFull"}
        \cup {<<"MultiThreadedAsync", "DropWhenFull">>}
MCSingleBlock == {<<"SingleThreadedAsync", "BlockWhenFull">>}
MCMultiBlock == {<<"MultiThreadedAsync", "BlockWhenFull">>}
=============================================================================
