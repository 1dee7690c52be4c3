----------------------------- MODULE JobLifecycle -----------------------------
(***************************************************************************)
(* What a client of the job API may rely on: the status of every job moves *)
(* along JobStatus (src/visionforge/db/models.py) in one direction, a      *)
(* finished job stays finished, and only a job somebody asked to cancel    *)
(* becomes cancelled.                                                      *)
(***************************************************************************)
CONSTANT Jobs

VARIABLES
    status,     \* status of every job, "absent" before it is submitted
    asked       \* jobs with an accepted cancellation

JobStatus == {"pending", "running", "succeeded", "failed", "cancelled"}
Terminal == {"succeeded", "failed", "cancelled"}

Init ==
    /\ status = [j \in Jobs |-> "absent"]
    /\ asked = {}

Move(j, from, to) ==
    /\ status[j] = from
    /\ status' = [status EXCEPT ![j] = to]
    /\ UNCHANGED asked

Submit(j) == Move(j, "absent", "pending")
Start(j) == Move(j, "pending", "running")
Succeed(j) == Move(j, "running", "succeeded")
Fail(j) == Move(j, "running", "failed")
Cancel(j) == j \in asked /\ Move(j, "running", "cancelled")

Ask(j) ==
    /\ status[j] # "absent"
    /\ asked' = asked \cup {j}
    /\ UNCHANGED status

Next == \E j \in Jobs :
    Submit(j) \/ Start(j) \/ Succeed(j) \/ Fail(j) \/ Cancel(j) \/ Ask(j)

Spec == Init /\ [][Next]_<<status, asked>>
===============================================================================
