----------------------------- MODULE MCExecutor -----------------------------
(* Instances of Executor for TLC: more requests than event-loop threads.     *)
EXTENDS Executor
=============================================================================
