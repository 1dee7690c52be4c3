------------------------------- MODULE ArqWorker -------------------------------
(***************************************************************************)
(* The arq task process_video_job (src/visionforge/worker/arq_worker.py)   *)
(* on top of the JobManager of its process: it submits a job and, in a     *)
(* thread, polls the job's status until it finds it terminal.              *)
(***************************************************************************)
EXTENDS JobManager, SequencesExt

VARIABLE task       \* per job: "none", "polling", "returned"

arqVars == <<vars, task>>

\* str() of a member of JobStatus(str, Enum), cut where a suffix may start:
\* Enum gives the class and the NAME of the member, not its value.
StrOf(status) ==
    <<"JobStatus.",
      CASE status = "pending"   -> "PENDING"
        [] status = "running"   -> "RUNNING"
        [] status = "succeeded" -> "SUCCEEDED"
        [] status = "failed"    -> "FAILED"
        [] status = "cancelled" -> "CANCELLED">>

\* The task's test for a terminal status.
LooksTerminal(status) ==
    \E word \in {"succeeded", "failed", "cancelled"} : IsSuffix(<<word>>, StrOf(status))

ArqInit == Init /\ task = [j \in Jobs |-> "none"]

\* manager.submit came back with the job: the polling loop begins.  When it
\* raises, so does the task.
BeginPolling(j) ==
    /\ task[j] = "none"
    /\ pc[j] \notin Submitting
    /\ task' = [task EXCEPT ![j] = "polling"]
    /\ UNCHANGED vars

\* One turn of the loop that ends it; every other turn sleeps 0.1 s.
FindTerminal(j) ==
    /\ task[j] = "polling"
    /\ LooksTerminal(job[j].status)
    /\ task' = [task EXCEPT ![j] = "returned"]
    /\ UNCHANGED vars

ArqNext ==
    \/ Next /\ UNCHANGED task
    \/ \E j \in Jobs : BeginPolling(j) \/ FindTerminal(j)

ArqFairness ==
    /\ \A j \in Jobs :
        /\ WF_arqVars(SubmitStep(j) /\ UNCHANGED task)
        /\ WF_arqVars(RunStep(j) /\ UNCHANGED task)
        /\ WF_arqVars(BeginPolling(j))
        /\ WF_arqVars(FindTerminal(j))

ArqSpec == ArqInit /\ [][ArqNext]_arqVars /\ ArqFairness

\* "Block until terminal": the task of a job that has ended returns.
TaskReturns ==
    \A j \in Jobs : (task[j] = "polling" /\ pc[j] = "done") ~> task[j] = "returned"
===============================================================================
