------------------------------ MODULE JobManager ------------------------------
(***************************************************************************)
(* JobManager (src/visionforge/worker/jobs.py): threads submit, poll and   *)
(* cancel jobs and shut the manager down, while the threads of a           *)
(* ThreadPoolExecutor run them.  Only submit's two dictionary updates and  *)
(* get are locked; a JobState is written by its worker and read by         *)
(* everybody with no lock at all, so every assignment to one of its fields *)
(* is a step of its own, and so is every field to_dict reads.              *)
(***************************************************************************)
EXTENDS Integers, Sequences, FiniteSets

CONSTANTS
    Jobs,           \* the ids uuid4 hands out
    NoJob,          \* no id: None
    MaxWorkers,     \* max_workers: threads of one pool
    MaxFramesPerJob,\* max_frames_per_job
    SourceFrames,   \* how many frames a source may hold
    MaxFramesArgs,  \* values of max_frames; 0 stands for None as well
    MaxShutdowns    \* bound: how often shutdown is called

ASSUME NoJobAssumption == NoJob \notin Jobs
ASSUME WorkersAssumption == MaxWorkers \in Nat \ {0}
ASSUME CapAssumption == MaxFramesPerJob \in Nat \ {0}
ASSUME SourceAssumption == SourceFrames \subseteq Nat
ASSUME ArgsAssumption == MaxFramesArgs \subseteq Nat
ASSUME ShutdownsAssumption == MaxShutdowns \in Nat

VARIABLES
    pc,         \* how far submit, then _run, has come with a job
    job,        \* the JobState objects
    todo,       \* frames the source of a job holds, up to the cap
    cap,        \* the cap _run computes from max_frames
    home,       \* the pool a job was handed to
    queue,      \* per pool, jobs waiting for a worker, oldest first
    pool,       \* self._executor, pools numbered as they are built
    down,       \* pools that have been shut down
    shutdownFlag, \* self._shutdown
    closing,    \* the shutdown call in progress
    shutdowns,  \* how many have been made
    activeJobs, \* the active_jobs gauge
    canceller,  \* cancel calls that have checked the status and not yet set the flag
    lateResults, \* history: results a job appended after its flag was set
    reader,     \* job whose to_dict is being read
    field,      \* the field it reads next
    snapshot    \* what it has read

workerVars == <<pc, job, home, queue>>
poolVars == <<pool, down, shutdownFlag, closing, shutdowns>>
inputVars == <<todo, cap>>
cancelVars == <<canceller, lateResults>>
pollVars == <<reader, field, snapshot>>
vars == <<workerVars, inputVars, poolVars, activeJobs, cancelVars, pollVars>>
-------------------------------------------------------------------------------
\* A pool is built at first and after each shutdown, at most.
Pools == 1..(MaxShutdowns + 1)

JobStatus == {"pending", "running", "succeeded", "failed", "cancelled"}
Terminal == {"succeeded", "failed", "cancelled"}

JobState == [status : JobStatus, progress : 0..100, total : Nat, processed : Nat,
             error : BOOLEAN, results : Nat, cancelled : BOOLEAN]

NewJob == [status |-> "pending", progress |-> 0, total |-> 0, processed |-> 0,
           error |-> FALSE, results |-> 0, cancelled |-> FALSE]

\* submit: before the call, after each of its steps, or out of it by the
\* RuntimeError of a pool that is down.
Submitting == {"new", "registered", "counted", "raised"}
\* _run: waiting in the pool, cancelled there by cancel_futures, at each of
\* its assignments, in its finally clause, over.
Running == {"frame", "infer", "count", "progress", "total", "full", "succeed", "fail"}
Leaving == {"error", "leave"}
Busy == Running \cup Leaving

\* Mutant: to_dict reads the status last.
FieldOrderStatusLast == <<"progress", "total", "processed", "error", "results", "status">>

\* The order in which to_dict reads the fields.
FieldOrder == <<"status", "progress", "total", "processed", "error", "results">>

Smaller(a, b) == IF a < b THEN a ELSE b

Progress(processed, limit) == Smaller(99, (100 * processed) \div limit)
-------------------------------------------------------------------------------
Init ==
    /\ pc = [j \in Jobs |-> "new"]
    /\ job = [j \in Jobs |-> NewJob]
    /\ todo = [j \in Jobs |-> 0]
    /\ cap = [j \in Jobs |-> MaxFramesPerJob]
    /\ home = [j \in Jobs |-> 0]
    /\ queue = [p \in Pools |-> <<>>]
    /\ pool = 1
    /\ down = {}
    /\ shutdownFlag = FALSE
    /\ closing = [step |-> "idle", pool |-> 0, wait |-> FALSE]
    /\ shutdowns = 0
    /\ activeJobs = 0
    /\ canceller = {}
    /\ lateResults = [j \in Jobs |-> 0]
    /\ reader = NoJob
    /\ field = 1
    /\ snapshot = NewJob

\* A step of submit or _run: the job moves from one point to another and
\* its JobState changes as said.
Goto(j, from, to, state) ==
    /\ pc[j] = from
    /\ pc' = [pc EXCEPT ![j] = to]
    /\ job' = [job EXCEPT ![j] = state]

Known(j) == pc[j] # "new"

\* submit, first locked section: _ensure_executor, then the job is visible.
Register(j, frames, arg) ==
    /\ Goto(j, "new", "registered", job[j])
    /\ pool' = IF shutdownFlag THEN pool + 1 ELSE pool
    /\ shutdownFlag' = FALSE
    /\ cap' = [cap EXCEPT ![j] = IF arg = 0 THEN MaxFramesPerJob ELSE arg]
    /\ todo' = [todo EXCEPT ![j] = Smaller(frames, cap'[j])]
    /\ UNCHANGED <<home, queue, down, closing, shutdowns, activeJobs, cancelVars, pollVars>>

CountIn(j) ==
    /\ Goto(j, "registered", "counted", job[j])
    /\ activeJobs' = activeJobs + 1
    /\ UNCHANGED <<home, queue, inputVars, poolVars, cancelVars, pollVars>>

\* submit: self._executor.submit(self._run, ...), outside the lock.  The
\* future it then files in _futures is never looked at again.
Enqueue(j) ==
    /\ pool \notin down
    /\ Goto(j, "counted", "queued", job[j])
    /\ home' = [home EXCEPT ![j] = pool]
    /\ queue' = [queue EXCEPT ![pool] = Append(@, j)]
    /\ UNCHANGED <<inputVars, poolVars, activeJobs, cancelVars, pollVars>>

\* ThreadPoolExecutor.submit raises RuntimeError once it is shut down, and
\* so does the caller's submit.
EnqueueRaises(j) ==
    /\ pool \in down
    /\ Goto(j, "counted", "raised", job[j])
    /\ UNCHANGED <<home, queue, inputVars, poolVars, activeJobs, cancelVars, pollVars>>

\* One of the steps below touches nothing but its job.
Worker(j, from, to, state) ==
    /\ Goto(j, from, to, state)
    /\ UNCHANGED <<home, queue, inputVars, poolVars, activeJobs, cancelVars, pollVars>>

\* A free thread of the pool takes its oldest job, and _run begins.
Start(j) ==
    /\ Goto(j, "queued", "frame", [job[j] EXCEPT !.status = "running"])
    /\ queue[home[j]] # <<>> /\ Head(queue[home[j]]) = j
    /\ Cardinality({k \in Jobs : pc[k] \in Busy /\ home[k] = home[j]}) < MaxWorkers
    /\ queue' = [queue EXCEPT ![home[j]] = Tail(@)]
    /\ UNCHANGED <<home, inputVars, poolVars, activeJobs, cancelVars, pollVars>>

\* Mutant: the loop forgets to look at the flag.
TakeFrameUnchecked(j) ==
    /\ job[j].processed < todo[j]
    /\ Worker(j, "frame", "infer", job[j])

\* The loop gets its next frame and finds no cancellation.
TakeFrame(j) ==
    /\ job[j].processed < todo[j]
    /\ ~job[j].cancelled
    /\ Worker(j, "frame", "infer", job[j])

\* Mutant: a cancelled job leaves around the finally clause.
NoticeCancelSkipsFinally(j) ==
    /\ job[j].processed < todo[j]
    /\ job[j].cancelled
    /\ Worker(j, "frame", "done", [job[j] EXCEPT !.status = "cancelled"])

NoticeCancel(j) ==
    /\ job[j].processed < todo[j]
    /\ job[j].cancelled
    /\ Worker(j, "frame", "leave", [job[j] EXCEPT !.status = "cancelled"])

NoMoreFrames(j) ==
    /\ job[j].processed >= todo[j]
    /\ Worker(j, "frame", "total", job[j])

\* Mutant: a frame that raises is tried again.
RaiseRetries(j) ==
    \/ Worker(j, "frame", "fail", job[j])
    \/ Worker(j, "infer", "frame", job[j])

\* iter_frames or manager.infer raises.
Raise(j) ==
    \/ Worker(j, "frame", "fail", job[j])
    \/ Worker(j, "infer", "fail", job[j])

Infer(j) ==
    /\ Goto(j, "infer", "count", [job[j] EXCEPT !.results = @ + 1])
    /\ lateResults' = IF job[j].cancelled THEN [lateResults EXCEPT ![j] = @ + 1]
                      ELSE lateResults
    /\ UNCHANGED <<home, queue, inputVars, poolVars, activeJobs, canceller, pollVars>>

CountFrame(j) == Worker(j, "count", "progress", [job[j] EXCEPT !.processed = @ + 1])
SetProgress(j) ==
    Worker(j, "progress", "frame",
           [job[j] EXCEPT !.progress = Progress(job[j].processed, cap[j])])

SetTotal(j) == Worker(j, "total", "full", [job[j] EXCEPT !.total = job[j].processed])
SetFull(j) == Worker(j, "full", "succeed", [job[j] EXCEPT !.progress = 100])
SetSucceeded(j) == Worker(j, "succeed", "leave", [job[j] EXCEPT !.status = "succeeded"])

SetFailed(j) == Worker(j, "fail", "error", [job[j] EXCEPT !.status = "failed"])
SetError(j) == Worker(j, "error", "leave", [job[j] EXCEPT !.error = TRUE])

\* The finally clause; the thread is free for the next job.
Leave(j) ==
    /\ Goto(j, "leave", "done", job[j])
    /\ activeJobs' = activeJobs - 1
    /\ UNCHANGED <<home, queue, inputVars, poolVars, cancelVars, pollVars>>

SubmitStep(j) == CountIn(j) \/ Enqueue(j) \/ EnqueueRaises(j)

RunStep(j) ==
    \/ Start(j) \/ TakeFrame(j) \/ NoticeCancel(j) \/ NoMoreFrames(j)
    \/ Raise(j) \/ Infer(j) \/ CountFrame(j) \/ SetProgress(j)
    \/ SetTotal(j) \/ SetFull(j) \/ SetSucceeded(j)
    \/ SetFailed(j) \/ SetError(j) \/ Leave(j)
-------------------------------------------------------------------------------
\* cancel: get, then the status is checked ...
CancelCheck(j) ==
    /\ Known(j)
    /\ job[j].status \notin Terminal
    /\ canceller' = canceller \cup {j}
    /\ UNCHANGED <<workerVars, inputVars, poolVars, activeJobs, lateResults, pollVars>>

\* Mutant: cancel writes the status itself.
CancelSetsStatus(j) ==
    /\ j \in canceller
    /\ canceller' = canceller \ {j}
    /\ job' = [job EXCEPT ![j].cancelled = TRUE, ![j].status = "cancelled"]
    /\ UNCHANGED <<pc, home, queue, inputVars, poolVars, activeJobs, lateResults, pollVars>>

\* ... and then, whatever has happened since, the flag is set and the
\* caller is told that the job is cancelled.
CancelSet(j) ==
    /\ j \in canceller
    /\ canceller' = canceller \ {j}
    /\ job' = [job EXCEPT ![j].cancelled = TRUE]
    /\ UNCHANGED <<pc, home, queue, inputVars, poolVars, activeJobs, lateResults, pollVars>>

\* get and to_dict: the fields one after the other.
PollBegin(j) ==
    /\ Known(j)
    /\ reader = NoJob \/ field > Len(FieldOrder)
    /\ reader' = j
    /\ field' = 1
    /\ snapshot' = NewJob
    /\ UNCHANGED <<workerVars, inputVars, poolVars, activeJobs, cancelVars>>

PollField ==
    /\ reader # NoJob
    /\ field <= Len(FieldOrder)
    /\ field' = field + 1
    /\ snapshot' = [snapshot EXCEPT ![FieldOrder[field]] = job[reader][FieldOrder[field]]]
    /\ UNCHANGED <<workerVars, inputVars, poolVars, activeJobs, cancelVars, reader>>

\* shutdown, first statement.
ShutdownFlag(wait) ==
    /\ shutdowns < MaxShutdowns
    /\ closing.step = "idle"
    /\ shutdowns' = shutdowns + 1
    /\ shutdownFlag' = TRUE
    /\ closing' = [step |-> "flagged", pool |-> 0, wait |-> wait]
    /\ UNCHANGED <<workerVars, inputVars, pool, down, activeJobs, cancelVars, pollVars>>

\* shutdown, second statement: whichever pool self._executor is by now goes
\* down, and cancel_futures drops what waits in it.
ShutdownPool ==
    /\ closing.step = "flagged"
    /\ down' = down \cup {pool}
    /\ pc' = [j \in Jobs |-> IF pc[j] = "queued" /\ home[j] = pool THEN "dropped" ELSE pc[j]]
    /\ queue' = [queue EXCEPT ![pool] = <<>>]
    /\ closing' = [closing EXCEPT !.step = "joining", !.pool = pool]
    /\ UNCHANGED <<job, home, inputVars, pool, shutdownFlag, shutdowns, activeJobs,
                   cancelVars, pollVars>>

\* Mutant: wait=True waits for every job that was submitted.
ShutdownAwaitsEveryJob ==
    /\ closing.step = "joining"
    /\ closing.wait => \A j \in Jobs : pc[j] \in {"new", "done"}
    /\ closing' = [step |-> "idle", pool |-> 0, wait |-> FALSE]
    /\ UNCHANGED <<workerVars, inputVars, pool, down, shutdownFlag, shutdowns, activeJobs,
                   cancelVars, pollVars>>

\* With wait=True, shutdown returns when the pool's threads are done.
ShutdownReturns ==
    /\ closing.step = "joining"
    /\ closing.wait => \A j \in Jobs : ~(pc[j] \in Busy /\ home[j] = closing.pool)
    /\ closing' = [step |-> "idle", pool |-> 0, wait |-> FALSE]
    /\ UNCHANGED <<workerVars, inputVars, pool, down, shutdownFlag, shutdowns, activeJobs,
                   cancelVars, pollVars>>

Next ==
    \/ \E j \in Jobs :
        \/ \E frames \in SourceFrames, arg \in MaxFramesArgs : Register(j, frames, arg)
        \/ SubmitStep(j)
        \/ RunStep(j)
    \/ \E j \in Jobs : CancelCheck(j) \/ CancelSet(j) \/ PollBegin(j)
    \/ PollField
    \/ \E wait \in BOOLEAN : ShutdownFlag(wait)
    \/ ShutdownPool
    \/ ShutdownReturns

Spec == Init /\ [][Next]_vars

\* Threads are scheduled: a submit or shutdown that has begun goes on, and
\* so does every worker.  A source is finite or capped, and inference ends.
\* Nobody is obliged to submit, cancel, poll or shut down.
Fairness ==
    /\ \A j \in Jobs : WF_vars(SubmitStep(j)) /\ WF_vars(RunStep(j))
    /\ WF_vars(ShutdownPool)
    /\ WF_vars(ShutdownReturns)

FairSpec == Spec /\ Fairness
-------------------------------------------------------------------------------
Point == Submitting \cup Running \cup Leaving \cup {"queued", "dropped", "done"}

TypeOK ==
    /\ pc \in [Jobs -> Point]
    /\ job \in [Jobs -> JobState]
    /\ todo \in [Jobs -> Nat]
    /\ cap \in [Jobs -> Nat \ {0}]
    /\ home \in [Jobs -> {0} \cup Pools]
    /\ queue \in [Pools -> Seq(Jobs)]
    /\ pool \in Pools
    /\ down \subseteq Pools
    /\ shutdownFlag \in BOOLEAN
    /\ closing \in [step : {"idle", "flagged", "joining"}, pool : {0} \cup Pools, wait : BOOLEAN]
    /\ shutdowns \in 0..MaxShutdowns
    /\ activeJobs \in Int
    /\ canceller \subseteq Jobs
    /\ lateResults \in [Jobs -> Nat]
    /\ reader \in Jobs \cup {NoJob}
    /\ field \in 1..(Len(FieldOrder) + 1)
    /\ snapshot \in JobState

\* What the status of a job says about the point its code has reached.
StageInv ==
    \A j \in Jobs :
        /\ pc[j] \in Submitting \cup {"queued", "dropped"} => job[j].status = "pending"
        /\ pc[j] \in Running => job[j].status = "running"
        /\ pc[j] = "error" => job[j].status = "failed"
        /\ pc[j] \in {"leave", "done"} => job[j].status \in Terminal
        /\ j \in canceller => Known(j)

\* How the counters of a JobState follow one another: a result is appended,
\* then counted, then totalled, and only then is the job succeeded.
CountOK(point, s) ==
    /\ s.results = s.processed + (IF point = "count" THEN 1 ELSE 0)
    /\ s.total <= s.processed
    /\ point \in {"full", "succeed"} => s.total = s.processed
    /\ point = "succeed" => s.progress = 100
    /\ s.error => s.status = "failed"
    /\ s.status = "succeeded" => s.progress = 100 /\ s.total = s.processed

CountInv == \A j \in Jobs : CountOK(pc[j], job[j])

\* What the fields read so far still say about the job.
PollInv ==
    reader # NoJob =>
        LET r == job[reader] IN
        /\ field > 1 /\ snapshot.status = "succeeded" =>
            /\ r.status = "succeeded"
            /\ field > 2 => snapshot.progress = 100
            /\ field > 3 => snapshot.total = r.total
            /\ field > 4 => snapshot.processed = r.processed
            /\ field > 5 => ~snapshot.error
            /\ field > 6 => snapshot.results = r.results
        /\ field > 3 => snapshot.total <= r.processed
        /\ field > 4 => snapshot.total <= snapshot.processed /\ snapshot.processed <= r.results
        /\ field > 6 => snapshot.processed <= snapshot.results

\* The numbering of the pools, and the frame a late cancellation lets finish.
PoolInv == pool <= shutdowns + 1 /\ (shutdownFlag => pool <= shutdowns)
LateInv ==
    \A j \in Jobs :
        /\ lateResults[j] <= 1
        /\ lateResults[j] = 1 => pc[j] # "infer"
        /\ lateResults[j] = 1 => job[j].cancelled

\* The inductive invariant behind the theorems of JobManagerProofs.
JobInv == StageInv /\ CountInv /\ PollInv /\ PoolInv /\ LateInv

\* The job API keeps the promise of JobLifecycle.
Lifecycle == INSTANCE JobLifecycle WITH
    status <- [j \in Jobs |-> IF Known(j) THEN job[j].status ELSE "absent"],
    asked <- {j \in Jobs : job[j].cancelled}

\* No interleaving of workers, cancellations, polls and shutdowns takes a
\* job back, out of a terminal status, or to "cancelled" unasked.
RefinesLifecycle == Lifecycle!Spec

\* to_dict reads six fields with no lock while the worker writes them, yet
\* what it returns is coherent: frames are counted after their results and
\* totalled after that, and a client that reads "succeeded" reads a full
\* progress bar, all the results and no error.  This is so because the
\* worker writes status last and to_dict reads it first, and so on down.
SnapshotCoherent ==
    (reader # NoJob /\ field > Len(FieldOrder)) =>
        /\ snapshot.total <= snapshot.processed
        /\ snapshot.processed <= snapshot.results
        /\ snapshot.status = "succeeded" =>
            /\ snapshot.progress = 100
            /\ snapshot.total = snapshot.processed
            /\ snapshot.processed = snapshot.results
            /\ ~snapshot.error

\* Counted in and on their way to being counted out, and counted in for good:
\* the pool has refused them or a shutdown has dropped them.
InFlight == {j \in Jobs : pc[j] \in {"counted", "queued"} \cup Busy}
Stranded == {j \in Jobs : pc[j] \in {"raised", "dropped"}}

\* What is left of "Number of in-flight background jobs" (metrics.py:126).
\* Whichever way jobs end, each counts itself out exactly once; so the gauge is
\* that number as long as nobody has called shutdown.  From then on it is too
\* high, for good, by the jobs that shutdowns have stranded, and by no other.
GaugeOffByStranded ==
    /\ activeJobs = Cardinality(InFlight) + Cardinality(Stranded)
    /\ shutdowns = 0 => Stranded = {}

\* Once its flag is set, a job finishes at most the frame it is at.
CancelStopsWork ==
    \A j \in Jobs : lateResults[j] <= 1

\* Every job that got into the pool is run to its end unless a shutdown
\* drops it: neither a raising frame nor a cancellation nor a busy pool
\* can strand it.
EndsUnlessDropped ==
    \A j \in Jobs : pc[j] = "queued" ~> pc[j] \in {"done", "dropped"}

\* shutdown(wait=True) comes back, also when jobs are running: it waits for
\* them to end, and nothing can be added behind its back for ever.
ShutdownComesBack == closing.step # "idle" ~> closing.step = "idle"

\* test_jobmanager_executor_rebuilds_after_shutdown: "submitting after
\* shutdown should transparently rebuild the pool".  So once a shutdown has
\* returned, either the flag that makes submit rebuild is up, or the pool
\* that submit would use is in service.
PoolUsable == closing.step = "idle" => shutdownFlag \/ pool \notin down
===============================================================================
