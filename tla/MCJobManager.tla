----------------------------- MODULE MCJobManager -----------------------------
(***************************************************************************)
(* JobManager for TLC.  A poll reads one JobState and nothing else, so     *)
(* polls are explored for a job that is alone, with no shutdown.  A        *)
(* cancellation touches one job, so it is explored for a job that is alone *)
(* or has others waiting behind it.  At most one job is longer than one    *)
(* frame, so that jobs of different caps meet.  Only steps nobody is       *)
(* obliged to take (Register, PollBegin, CancelCheck, ShutdownFlag) are    *)
(* ever cut, so fairness is untouched.                                     *)
(***************************************************************************)
EXTENDS JobManager

Bounded ==
    /\ Cardinality({j \in Jobs : pc'[j] # "new" /\ cap'[j] > 1}) <= 1
    /\ reader' # NoJob => shutdowns' = 0 /\ \A j \in Jobs \ {reader'} : pc'[j] = "new"
    /\ \A j \in canceller' \ canceller :
        /\ ~job[j].cancelled
        /\ \A k \in Jobs \ {j} :
            pc[k] \in {"new", "queued"} /\ ~job[k].cancelled /\ k \notin canceller
===============================================================================
