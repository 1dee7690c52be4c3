---------------------------- MODULE MCModelManager ----------------------------
(***************************************************************************)
(* ModelManager with the callers the service has: warmup runs at startup,  *)
(* before anything is cached, and the job threads use fewer keys than the  *)
(* event loop does.  Only entries into methods are cut, which no fairness  *)
(* condition obliges anybody to take.                                      *)
(***************************************************************************)
EXTENDS ModelManager

CONSTANTS
    JobThreads,     \* the threads that run jobs
    JobKeys         \* the keys that jobs ask for

Callers ==
    \A t \in Threads : pc[t] = "idle" /\ pc'[t] # "idle" =>
        /\ op'[t] = "warmup" => cache = <<>> /\ t \notin JobThreads
        /\ t \in JobThreads => key'[t] \in JobKeys
===============================================================================
