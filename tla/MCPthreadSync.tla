---------------------------- MODULE MCPthreadSync ----------------------------
(* The mutex and the condition variable of two threads, each type in turn.    *)
EXTENDS PthreadSync
=============================================================================
