--------------------------- MODULE JobManagerProofs ---------------------------
(***************************************************************************)
(* JobManager for every number of jobs, workers, frames and shutdowns.     *)
(***************************************************************************)
EXTENDS JobManager, SequenceTheorems, FiniteSetTheorems, TLAPS

\* The progress bar of a job that still runs is a percentage below 100.
LEMMA ProgressBounded ==
    ASSUME NEW p \in Nat, NEW limit \in Nat \ {0}
    PROVE  Progress(p, limit) \in 0..99
<1>1. (100 * p) \div limit \in Nat
  OBVIOUS
<1> QED
  BY <1>1 DEF Progress, Smaller

\* A new JobState is a JobState.
LEMMA NewJobTyped == NewJob \in JobState
BY DEF NewJob, JobState, JobStatus

\* A step of submit or _run that writes a JobState keeps the types of both.
LEMMA GotoTyped ==
    ASSUME TypeOK, NEW j \in Jobs, NEW from, NEW to \in Point, NEW state \in JobState,
           Goto(j, from, to, state)
    PROVE  pc' \in [Jobs -> Point] /\ job' \in [Jobs -> JobState]
BY DEF TypeOK, Goto

\* Each of the JobStates that a step leaves behind is a JobState.
LEMMA StatesTyped ==
    ASSUME NEW s \in JobState
    PROVE  /\ \A status \in JobStatus : [s EXCEPT !.status = status] \in JobState
           /\ [s EXCEPT !.results = @ + 1] \in JobState
           /\ [s EXCEPT !.processed = @ + 1] \in JobState
           /\ \A p \in 0..100 : [s EXCEPT !.progress = p] \in JobState
           /\ [s EXCEPT !.total = s.processed] \in JobState
           /\ [s EXCEPT !.error = TRUE] \in JobState
           /\ [s EXCEPT !.cancelled = TRUE] \in JobState
<1>1. \A status \in JobStatus : [s EXCEPT !.status = status] \in JobState
  BY DEF JobState
<1>2. [s EXCEPT !.results = @ + 1] \in JobState
  BY DEF JobState
<1>3. [s EXCEPT !.processed = @ + 1] \in JobState
  BY DEF JobState
<1>4. \A p \in 0..100 : [s EXCEPT !.progress = p] \in JobState
  BY DEF JobState
<1>5. [s EXCEPT !.total = s.processed] \in JobState
  BY DEF JobState
<1>6. [s EXCEPT !.error = TRUE] \in JobState
  BY DEF JobState
<1>7. [s EXCEPT !.cancelled = TRUE] \in JobState
  BY DEF JobState
<1> QED
  BY <1>1, <1>2, <1>3, <1>4, <1>5, <1>6, <1>7

\* Reading the next field of a JobState into a snapshot gives a JobState.
LEMMA SnapshotTyped ==
    ASSUME NEW s \in JobState, NEW t \in JobState, NEW i \in 1..Len(FieldOrder)
    PROVE  [s EXCEPT ![FieldOrder[i]] = t[FieldOrder[i]]] \in JobState
<1>1. i \in {1, 2, 3, 4, 5, 6}
  BY DEF FieldOrder
<1>2. CASE i = 1
  BY <1>2 DEF FieldOrder, JobState
<1>3. CASE i = 2
  BY <1>3 DEF FieldOrder, JobState
<1>4. CASE i = 3
  BY <1>4 DEF FieldOrder, JobState
<1>5. CASE i = 4
  BY <1>5 DEF FieldOrder, JobState
<1>6. CASE i = 5
  BY <1>6 DEF FieldOrder, JobState
<1>7. CASE i = 6
  BY <1>7 DEF FieldOrder, JobState
<1> QED
  BY <1>1, <1>2, <1>3, <1>4, <1>5, <1>6, <1>7

\* The moves of the two threads that run a job, and what they leave alone.
LEMMA WorkerTyped ==
    ASSUME TypeOK, NEW j \in Jobs, NEW from, NEW to \in Point, NEW state \in JobState,
           Worker(j, from, to, state)
    PROVE  TypeOK'
<1>1. pc' \in [Jobs -> Point] /\ job' \in [Jobs -> JobState]
  BY GotoTyped DEF Worker
<1> QED
  BY <1>1 DEF TypeOK, Worker, inputVars, poolVars, cancelVars, pollVars

LEMMA SubmitStepTyped ==
    ASSUME TypeOK, NEW j \in Jobs, SubmitStep(j)
    PROVE  TypeOK'
<1> USE DEF Point, Submitting, inputVars, poolVars, cancelVars, pollVars
<1>1. job[j] \in JobState
  BY DEF TypeOK
<1>2. CASE CountIn(j)
  <2>1. pc' \in [Jobs -> Point] /\ job' \in [Jobs -> JobState]
    BY <1>1, <1>2, GotoTyped DEF CountIn
  <2> QED
    BY <2>1, <1>2 DEF CountIn, TypeOK
<1>3. CASE Enqueue(j)
  <2>1. pc' \in [Jobs -> Point] /\ job' \in [Jobs -> JobState]
    BY <1>1, <1>3, GotoTyped DEF Enqueue
  <2>2. queue' \in [Pools -> Seq(Jobs)]
    <3>1. Append(queue[pool], j) \in Seq(Jobs)
      BY DEF TypeOK
    <3> QED
      BY <3>1, <1>3 DEF Enqueue, TypeOK
  <2> QED
    BY <2>1, <2>2, <1>3 DEF Enqueue, TypeOK
<1>4. CASE EnqueueRaises(j)
  <2>1. pc' \in [Jobs -> Point] /\ job' \in [Jobs -> JobState]
    BY <1>1, <1>4, GotoTyped DEF EnqueueRaises
  <2> QED
    BY <2>1, <1>4 DEF EnqueueRaises, TypeOK
<1> QED
  BY <1>2, <1>3, <1>4 DEF SubmitStep

LEMMA RunStepTyped ==
    ASSUME TypeOK, NEW j \in Jobs, RunStep(j)
    PROVE  TypeOK'
<1> DEFINE s == job[j]
<1>1. /\ s \in JobState
      /\ {"running", "cancelled", "succeeded", "failed"} \subseteq JobStatus
      /\ Running \cup Leaving \cup {"done"} \subseteq Point
  BY DEF TypeOK, JobStatus, Point
<1>2. CASE Start(j)
  <2>1. pc' \in [Jobs -> Point] /\ job' \in [Jobs -> JobState]
    <3>1. [s EXCEPT !.status = "running"] \in JobState
      BY <1>1, StatesTyped
    <3> QED
      BY <3>1, <1>1, <1>2, GotoTyped DEF Start, Running
  <2>2. queue' \in [Pools -> Seq(Jobs)]
    <3>1. CASE home[j] \in Pools
      <4>1. Tail(queue[home[j]]) \in Seq(Jobs)
        BY <3>1, <1>2 DEF TypeOK, Start
      <4> QED
        BY <4>1, <1>2 DEF TypeOK, Start
    <3>2. CASE home[j] \notin Pools
      BY <3>2, <1>2 DEF TypeOK, Start
    <3> QED
      BY <3>1, <3>2
  <2> QED
    BY <2>1, <2>2, <1>2 DEF Start, TypeOK, inputVars, poolVars, cancelVars, pollVars
<1>3. CASE TakeFrame(j) \/ NoMoreFrames(j) \/ Raise(j)
  BY <1>1, <1>3, WorkerTyped DEF TakeFrame, NoMoreFrames, Raise, Running
<1>4. CASE NoticeCancel(j)
  <2>1. [s EXCEPT !.status = "cancelled"] \in JobState
    BY <1>1, StatesTyped
  <2> QED
    BY <2>1, <1>1, <1>4, WorkerTyped DEF NoticeCancel, Leaving
<1>5. CASE Infer(j)
  <2>1. [s EXCEPT !.results = @ + 1] \in JobState
    BY <1>1, StatesTyped
  <2>2. pc' \in [Jobs -> Point] /\ job' \in [Jobs -> JobState]
    BY <2>1, <1>1, <1>5, GotoTyped DEF Infer, Running
  <2>3. lateResults' \in [Jobs -> Nat]
    <3>1. lateResults \in [Jobs -> Nat]
      BY DEF TypeOK
    <3>2. lateResults' = [lateResults EXCEPT ![j] = @ + 1] \/ lateResults' = lateResults
      BY <1>5, Zenon DEF Infer
    <3> QED
      BY <3>1, <3>2
  <2> QED
    BY <2>2, <2>3, <1>5 DEF Infer, TypeOK, inputVars, poolVars, pollVars
<1>6. CASE CountFrame(j)
  <2>1. [s EXCEPT !.processed = @ + 1] \in JobState
    BY <1>1, StatesTyped
  <2> QED
    BY <2>1, <1>1, <1>6, WorkerTyped DEF CountFrame, Running
<1>7. CASE SetProgress(j)
  <2>1. Progress(s.processed, cap[j]) \in 0..100
    <3>1. s.processed \in Nat /\ cap[j] \in Nat \ {0}
      BY <1>1 DEF TypeOK, JobState
    <3> HIDE DEF s
    <3> QED
      BY <3>1, ProgressBounded
  <2>2. [s EXCEPT !.progress = Progress(s.processed, cap[j])] \in JobState
    BY <2>1, <1>1, StatesTyped
  <2> QED
    BY <2>2, <1>1, <1>7, WorkerTyped DEF SetProgress, Running
<1>8. CASE SetTotal(j)
  <2>1. [s EXCEPT !.total = s.processed] \in JobState
    BY <1>1, StatesTyped
  <2> QED
    BY <2>1, <1>1, <1>8, WorkerTyped DEF SetTotal, Running
<1>9. CASE SetFull(j)
  <2>1. [s EXCEPT !.progress = 100] \in JobState
    <3>1. 100 \in 0..100
      OBVIOUS
    <3> HIDE DEF s
    <3> QED
      BY <3>1, <1>1, StatesTyped
  <2> QED
    BY <2>1, <1>1, <1>9, WorkerTyped DEF SetFull, Running
<1>10. CASE SetSucceeded(j)
  <2>1. [s EXCEPT !.status = "succeeded"] \in JobState
    BY <1>1, StatesTyped
  <2> QED
    BY <2>1, <1>1, <1>10, WorkerTyped DEF SetSucceeded, Leaving
<1>11. CASE SetFailed(j)
  <2>1. [s EXCEPT !.status = "failed"] \in JobState
    BY <1>1, StatesTyped
  <2> QED
    BY <2>1, <1>1, <1>11, WorkerTyped DEF SetFailed, Leaving
<1>12. CASE SetError(j)
  <2>1. [s EXCEPT !.error = TRUE] \in JobState
    BY <1>1, StatesTyped
  <2> QED
    BY <2>1, <1>1, <1>12, WorkerTyped DEF SetError, Leaving
<1>13. CASE Leave(j)
  <2>1. pc' \in [Jobs -> Point] /\ job' \in [Jobs -> JobState]
    BY <1>1, <1>13, GotoTyped DEF Leave
  <2> QED
    BY <2>1, <1>13 DEF Leave, TypeOK, inputVars, poolVars, cancelVars, pollVars
<1> QED
  BY <1>2, <1>3, <1>4, <1>5, <1>6, <1>7, <1>8, <1>9, <1>10, <1>11, <1>12, <1>13 DEF RunStep

\* Every step keeps the types and the numbering of the pools.
LEMMA NextTyped ==
    ASSUME TypeOK, PoolInv, [Next]_vars
    PROVE  TypeOK' /\ PoolInv'
<1>1. ASSUME NEW j \in Jobs, NEW frames \in SourceFrames, NEW arg \in MaxFramesArgs,
             Register(j, frames, arg)
      PROVE  TypeOK' /\ PoolInv'
  <2>1. job[j] \in JobState /\ "registered" \in Point
    BY DEF TypeOK, Point, Submitting
  <2>2. pc' \in [Jobs -> Point] /\ job' \in [Jobs -> JobState]
    BY <2>1, <1>1, GotoTyped DEF Register
  <2>3. cap' \in [Jobs -> Nat \ {0}] /\ todo' \in [Jobs -> Nat]
    BY <1>1, CapAssumption, SourceAssumption, ArgsAssumption DEF Register, TypeOK, Smaller
  <2>4. pool' \in Pools /\ pool' <= shutdowns' + 1 /\ shutdownFlag' = FALSE
    BY <1>1, ShutdownsAssumption DEF Register, TypeOK, PoolInv, Pools
  <2> QED
    BY <2>2, <2>3, <2>4, <1>1 DEF Register, TypeOK, PoolInv, cancelVars, pollVars
<1>2. ASSUME NEW j \in Jobs, SubmitStep(j)
      PROVE  TypeOK' /\ PoolInv'
  <2>1. UNCHANGED <<pool, shutdownFlag, shutdowns>>
    BY <1>2 DEF SubmitStep, CountIn, Enqueue, EnqueueRaises, poolVars
  <2> QED
    BY <2>1, <1>2, SubmitStepTyped DEF PoolInv
<1>3. ASSUME NEW j \in Jobs, RunStep(j)
      PROVE  TypeOK' /\ PoolInv'
  <2>1. UNCHANGED <<pool, shutdownFlag, shutdowns>>
    BY <1>3 DEF RunStep, Start, TakeFrame, NoticeCancel, NoMoreFrames, Raise, Infer, CountFrame,
                SetProgress, SetTotal, SetFull, SetSucceeded, SetFailed, SetError, Leave,
                Worker, poolVars
  <2> QED
    BY <2>1, <1>3, RunStepTyped DEF PoolInv
<1>4. ASSUME NEW j \in Jobs, CancelCheck(j)
      PROVE  TypeOK' /\ PoolInv'
  BY <1>4 DEF CancelCheck, TypeOK, PoolInv, workerVars, inputVars, poolVars, pollVars
<1>5. ASSUME NEW j \in Jobs, CancelSet(j)
      PROVE  TypeOK' /\ PoolInv'
  <2>1. job' \in [Jobs -> JobState]
    BY <1>5, StatesTyped DEF CancelSet, TypeOK
  <2> QED
    BY <2>1, <1>5 DEF CancelSet, TypeOK, PoolInv, inputVars, poolVars, pollVars
<1>6. ASSUME NEW j \in Jobs, PollBegin(j)
      PROVE  TypeOK' /\ PoolInv'
  <2>1. snapshot' \in JobState /\ field' \in 1..(Len(FieldOrder) + 1)
    BY <1>6, NewJobTyped DEF PollBegin, FieldOrder
  <2> QED
    BY <2>1, <1>6 DEF PollBegin, TypeOK, PoolInv, workerVars, inputVars, poolVars, cancelVars
<1>7. CASE PollField
  <2>1. field \in 1..Len(FieldOrder) /\ field' \in 1..(Len(FieldOrder) + 1)
    BY <1>7 DEF PollField, TypeOK, FieldOrder
  <2>2. job[reader] \in JobState
    BY <1>7 DEF PollField, TypeOK
  <2>3. snapshot' \in JobState
    BY <2>1, <2>2, <1>7, SnapshotTyped DEF PollField, TypeOK
  <2> QED
    BY <2>1, <2>3, <1>7 DEF PollField, TypeOK, PoolInv, workerVars, inputVars, poolVars, cancelVars
<1>8. ASSUME NEW wait \in BOOLEAN, ShutdownFlag(wait)
      PROVE  TypeOK' /\ PoolInv'
  BY <1>8, ShutdownsAssumption
  DEF ShutdownFlag, TypeOK, PoolInv, Pools, workerVars, inputVars, cancelVars, pollVars
<1>9. CASE ShutdownPool
  <2>1. pc' \in [Jobs -> Point]
    BY <1>9 DEF ShutdownPool, TypeOK, Point
  <2>2. queue' \in [Pools -> Seq(Jobs)]
    BY <1>9 DEF ShutdownPool, TypeOK
  <2>3. closing' \in [step : {"idle", "flagged", "joining"}, pool : {0} \cup Pools,
                     wait : BOOLEAN]
    <3>1. closing' = [step |-> "joining", pool |-> pool, wait |-> closing.wait]
      BY <1>9 DEF ShutdownPool, TypeOK
    <3> QED
      BY <3>1 DEF TypeOK
  <2> QED
    BY <2>1, <2>2, <2>3, <1>9 DEF ShutdownPool, TypeOK, PoolInv, inputVars, cancelVars, pollVars
<1>10. CASE ShutdownReturns
  BY <1>10 DEF ShutdownReturns, TypeOK, PoolInv, workerVars, inputVars, cancelVars, pollVars
<1>11. CASE UNCHANGED vars
  BY <1>11 DEF vars, TypeOK, PoolInv, workerVars, inputVars, poolVars, cancelVars, pollVars
<1> QED
  BY <1>1, <1>2, <1>3, <1>4, <1>5, <1>6, <1>7, <1>8, <1>9, <1>10, <1>11 DEF Next

\* Type correctness, with the numbering of the pools it needs: a pool is
\* built only after a shutdown has raised the flag, so there are never more
\* pools than shutdowns and one.
THEOREM TypeCorrect == Spec => [](TypeOK /\ PoolInv)
<1>1. Init => TypeOK /\ PoolInv
  <2> SUFFICES ASSUME Init
               PROVE  TypeOK /\ PoolInv
    OBVIOUS
  <2>1. NewJob \in JobState
    BY NewJobTyped
  <2>2. 1 \in 1..(Len(FieldOrder) + 1)
    BY DEF FieldOrder
  <2>3. 1 \in Pools
    BY ShutdownsAssumption DEF Pools
  <2>4. queue \in [Pools -> Seq(Jobs)]
    <3>1. <<>> \in Seq(Jobs)
      OBVIOUS
    <3> QED
      BY <3>1 DEF Init
  <2>5. closing \in [step : {"idle", "flagged", "joining"}, pool : {0} \cup Pools, wait : BOOLEAN]
    BY DEF Init
  <2>6. PoolInv
    BY ShutdownsAssumption DEF Init, PoolInv
  <2>7. field \in 1..(Len(FieldOrder) + 1) /\ snapshot \in JobState /\ job \in [Jobs -> JobState]
    BY <2>1, <2>2 DEF Init
  <2>8. pool \in Pools /\ shutdowns \in 0..MaxShutdowns
    BY <2>3, ShutdownsAssumption DEF Init
  <2>9. pc \in [Jobs -> Point] /\ cap \in [Jobs -> Nat \ {0}]
    BY CapAssumption DEF Init, Point, Submitting
  <2>10. /\ todo \in [Jobs -> Nat] /\ lateResults \in [Jobs -> Nat]
         /\ home \in [Jobs -> {0} \cup Pools]
         /\ down \subseteq Pools /\ canceller \subseteq Jobs
         /\ reader \in Jobs \cup {NoJob}
         /\ activeJobs \in Int
    BY DEF Init
  <2>11. shutdownFlag \in BOOLEAN
    BY DEF Init
  <2> QED
    BY <2>4, <2>5, <2>6, <2>7, <2>8, <2>9, <2>10, <2>11 DEF TypeOK
<1>2. TypeOK /\ PoolInv /\ [Next]_vars => TypeOK' /\ PoolInv'
  BY NextTyped
<1> QED
  BY <1>1, <1>2, PTL DEF Spec

\* A step of submit or _run is a Goto of its job, and never removes or adds
\* a cancel call.
LEMMA StepsGoto ==
    ASSUME NEW j \in Jobs, SubmitStep(j) \/ RunStep(j)
    PROVE  /\ \E to, state : Goto(j, pc[j], to, state)
           /\ UNCHANGED <<canceller, pollVars>>
<1>1. CASE SubmitStep(j)
  BY <1>1 DEF SubmitStep, CountIn, Enqueue, EnqueueRaises, Goto, cancelVars
<1>2. CASE RunStep(j)
  BY <1>2 DEF RunStep, Start, TakeFrame, NoticeCancel, NoMoreFrames, Raise, Infer, CountFrame,
              SetProgress, SetTotal, SetFull, SetSucceeded, SetFailed, SetError, Leave,
              Worker, Goto, cancelVars
<1> QED
  BY <1>1, <1>2

LEMMA StageStep ==
    ASSUME TypeOK, StageInv, [Next]_vars
    PROVE  StageInv'
<1> USE DEF Submitting, Running, Leaving, Terminal, Known
<1>1. ASSUME NEW j \in Jobs, NEW from, NEW to, NEW state, Goto(j, from, to, state),
             UNCHANGED canceller, to # "new",
             to \in Submitting \cup {"queued", "dropped"} => state.status = "pending",
             to \in Running => state.status = "running",
             to = "error" => state.status = "failed",
             to \in {"leave", "done"} => state.status \in Terminal
      PROVE  StageInv'
  BY <1>1 DEF StageInv, Goto, TypeOK
<1>2. ASSUME NEW j \in Jobs, NEW frames \in SourceFrames, NEW arg \in MaxFramesArgs,
             Register(j, frames, arg)
      PROVE  StageInv'
  <2>1. job[j].status = "pending" /\ UNCHANGED canceller
    BY <1>2 DEF Register, Goto, StageInv, cancelVars
  <2> QED
    BY <1>1, <1>2, <2>1 DEF Register
<1>3. ASSUME NEW j \in Jobs, SubmitStep(j)
      PROVE  StageInv'
  <2>1. job[j].status = "pending" /\ UNCHANGED canceller
    BY <1>3 DEF SubmitStep, CountIn, Enqueue, EnqueueRaises, Goto, StageInv, cancelVars
  <2>2. CASE CountIn(j)
    BY <1>1, <2>1, <2>2 DEF CountIn
  <2>3. CASE Enqueue(j)
    BY <1>1, <2>1, <2>3 DEF Enqueue
  <2>4. CASE EnqueueRaises(j)
    BY <1>1, <2>1, <2>4 DEF EnqueueRaises
  <2> QED
    BY <1>3, <2>2, <2>3, <2>4 DEF SubmitStep
<1>4. ASSUME NEW j \in Jobs, RunStep(j)
      PROVE  StageInv'
  <2>0. job[j] \in JobState
    BY DEF TypeOK
  <2>1. UNCHANGED canceller
    BY <1>4, StepsGoto
  <2>2. CASE Start(j)
    <3>1. [job[j] EXCEPT !.status = "running"].status = "running"
      BY <2>0 DEF JobState
    <3> QED
      BY <1>1, <2>1, <2>2, <3>1 DEF Start
  <2>3. CASE TakeFrame(j)
    <3>1. job[j].status = "running"
      BY <2>3 DEF TakeFrame, Worker, Goto, StageInv
    <3> QED
      BY <1>1, <2>1, <2>3, <3>1 DEF TakeFrame, Worker
  <2>4. CASE NoMoreFrames(j)
    <3>1. job[j].status = "running"
      BY <2>4 DEF NoMoreFrames, Worker, Goto, StageInv
    <3> QED
      BY <1>1, <2>1, <2>4, <3>1 DEF NoMoreFrames, Worker
  <2>5. CASE Raise(j)
    <3>1. job[j].status = "running"
      BY <2>5 DEF Raise, Worker, Goto, StageInv
    <3> QED
      BY <1>1, <2>1, <2>5, <3>1 DEF Raise, Worker
  <2>6. CASE NoticeCancel(j)
    <3>1. [job[j] EXCEPT !.status = "cancelled"].status = "cancelled"
      BY <2>0 DEF JobState
    <3> QED
      BY <1>1, <2>1, <2>6, <3>1 DEF NoticeCancel, Worker
  <2>7. CASE Infer(j)
    <3>1. [job[j] EXCEPT !.results = @ + 1].status = "running"
      BY <2>0, <2>7 DEF Infer, Goto, StageInv, JobState
    <3> QED
      BY <1>1, <2>1, <2>7, <3>1 DEF Infer
  <2>8. CASE CountFrame(j)
    <3>1. [job[j] EXCEPT !.processed = @ + 1].status = "running"
      BY <2>0, <2>8 DEF CountFrame, Worker, Goto, StageInv, JobState
    <3> QED
      BY <1>1, <2>1, <2>8, <3>1 DEF CountFrame, Worker
  <2>9. CASE SetProgress(j)
    <3>1. [job[j] EXCEPT !.progress = Progress(job[j].processed, cap[j])].status = "running"
      BY <2>0, <2>9 DEF SetProgress, Worker, Goto, StageInv, JobState
    <3> QED
      BY <1>1, <2>1, <2>9, <3>1 DEF SetProgress, Worker
  <2>10. CASE SetTotal(j)
    <3>1. [job[j] EXCEPT !.total = job[j].processed].status = "running"
      BY <2>0, <2>10 DEF SetTotal, Worker, Goto, StageInv, JobState
    <3> QED
      BY <1>1, <2>1, <2>10, <3>1 DEF SetTotal, Worker
  <2>11. CASE SetFull(j)
    <3>1. [job[j] EXCEPT !.progress = 100].status = "running"
      BY <2>0, <2>11 DEF SetFull, Worker, Goto, StageInv, JobState
    <3> QED
      BY <1>1, <2>1, <2>11, <3>1 DEF SetFull, Worker
  <2>12. CASE SetSucceeded(j)
    <3>1. [job[j] EXCEPT !.status = "succeeded"].status = "succeeded"
      BY <2>0 DEF JobState
    <3> QED
      BY <1>1, <2>1, <2>12, <3>1 DEF SetSucceeded, Worker
  <2>13. CASE SetFailed(j)
    <3>1. [job[j] EXCEPT !.status = "failed"].status = "failed"
      BY <2>0 DEF JobState
    <3> QED
      BY <1>1, <2>1, <2>13, <3>1 DEF SetFailed, Worker
  <2>14. CASE SetError(j)
    <3>1. [job[j] EXCEPT !.error = TRUE].status = "failed"
      BY <2>0, <2>14 DEF SetError, Worker, Goto, StageInv, JobState
    <3> QED
      BY <1>1, <2>1, <2>14, <3>1 DEF SetError, Worker
  <2>15. CASE Leave(j)
    <3>1. job[j].status \in Terminal
      BY <2>15 DEF Leave, Goto, StageInv
    <3> QED
      BY <1>1, <2>1, <2>15, <3>1 DEF Leave
  <2> QED
    BY <1>4, <2>2, <2>3, <2>4, <2>5, <2>6, <2>7, <2>8, <2>9, <2>10, <2>11, <2>12, <2>13, <2>14,
       <2>15 DEF RunStep
<1>5. ASSUME NEW j \in Jobs, CancelCheck(j)
      PROVE  StageInv'
  BY <1>5 DEF CancelCheck, StageInv, workerVars
<1>6. ASSUME NEW j \in Jobs, CancelSet(j)
      PROVE  StageInv'
  <2>1. \A k \in Jobs : job'[k].status = job[k].status
    BY <1>6 DEF CancelSet, TypeOK, JobState
  <2> QED
    BY <2>1, <1>6 DEF CancelSet, StageInv
<1>7. CASE ShutdownPool
  BY <1>7 DEF ShutdownPool, StageInv, TypeOK, cancelVars
<1>8. CASE \/ \E j \in Jobs : PollBegin(j)
           \/ PollField
           \/ \E wait \in BOOLEAN : ShutdownFlag(wait)
           \/ ShutdownReturns
           \/ UNCHANGED vars
  <2>1. UNCHANGED <<workerVars, canceller>>
    BY <1>8 DEF PollBegin, PollField, ShutdownFlag, ShutdownReturns, vars, cancelVars
  <2> QED
    BY <2>1 DEF StageInv, workerVars
<1> QED
  BY <1>2, <1>3, <1>4, <1>5, <1>6, <1>7, <1>8 DEF Next

LEMMA CountStep ==
    ASSUME TypeOK, StageInv, CountInv, [Next]_vars
    PROVE  CountInv'
<1>1. ASSUME NEW j \in Jobs, NEW from, NEW to, NEW state, Goto(j, from, to, state),
             CountOK(from, job[j]) => CountOK(to, state)
      PROVE  CountInv'
  <2>1. CountOK(pc'[j], job'[j])
    BY <1>1 DEF CountInv, Goto, TypeOK
  <2>2. \A k \in Jobs \ {j} : pc'[k] = pc[k] /\ job'[k] = job[k]
    BY <1>1 DEF Goto, TypeOK
  <2> QED
    BY <2>1, <2>2 DEF CountInv
<1>2. \A j \in Jobs : job[j] \in JobState
  BY DEF TypeOK
<1> USE DEF CountOK
<1>3. ASSUME NEW j \in Jobs, NEW frames \in SourceFrames, NEW arg \in MaxFramesArgs,
             Register(j, frames, arg)
      PROVE  CountInv'
  BY <1>1, <1>3 DEF Register
<1>4. ASSUME NEW j \in Jobs, SubmitStep(j)
      PROVE  CountInv'
  <2>1. CASE CountIn(j)
    BY <1>1, <2>1 DEF CountIn
  <2>2. CASE Enqueue(j)
    BY <1>1, <2>2 DEF Enqueue
  <2>3. CASE EnqueueRaises(j)
    BY <1>1, <2>3 DEF EnqueueRaises
  <2> QED
    BY <1>4, <2>1, <2>2, <2>3 DEF SubmitStep
<1>5. ASSUME NEW j \in Jobs, RunStep(j)
      PROVE  CountInv'
  <2> DEFINE s == job[j]
  <2>0. s \in JobState
    BY <1>2
  <2>1. CASE Start(j)
    <3>1. ~s.error
      BY <2>1 DEF Start, Goto, StageInv, CountInv
    <3>2. CountOK("queued", s) => CountOK("frame", [s EXCEPT !.status = "running"])
      BY <2>0, <3>1 DEF JobState
    <3> QED
      BY <1>1, <2>1, <3>2 DEF Start
  <2>2. CASE TakeFrame(j)
    BY <1>1, <2>2 DEF TakeFrame, Worker
  <2>3. CASE NoMoreFrames(j)
    BY <1>1, <2>3 DEF NoMoreFrames, Worker
  <2>4. CASE Raise(j)
    BY <1>1, <2>4 DEF Raise, Worker
  <2>5. CASE NoticeCancel(j)
    <3>1. ~s.error
      BY <2>5 DEF NoticeCancel, Worker, Goto, StageInv, CountInv, Running
    <3>2. CountOK("frame", s) => CountOK("leave", [s EXCEPT !.status = "cancelled"])
      BY <2>0, <3>1 DEF JobState
    <3> QED
      BY <1>1, <2>5, <3>2 DEF NoticeCancel, Worker
  <2>6. CASE Infer(j)
    <3>1. CountOK("infer", s) => CountOK("count", [s EXCEPT !.results = @ + 1])
      BY <2>0 DEF JobState
    <3> QED
      BY <1>1, <2>6, <3>1 DEF Infer
  <2>7. CASE CountFrame(j)
    <3>1. s.status = "running"
      BY <2>7 DEF CountFrame, Worker, Goto, StageInv, Running
    <3>2. CountOK("count", s) => CountOK("progress", [s EXCEPT !.processed = @ + 1])
      BY <2>0, <3>1 DEF JobState
    <3> QED
      BY <1>1, <2>7, <3>2 DEF CountFrame, Worker
  <2>8. CASE SetProgress(j)
    <3>1. s.status = "running"
      BY <2>8 DEF SetProgress, Worker, Goto, StageInv, Running
    <3>2. CountOK("progress", s)
            => CountOK("frame", [s EXCEPT !.progress = Progress(s.processed, cap[j])])
      BY <2>0, <3>1 DEF JobState
    <3> QED
      BY <1>1, <2>8, <3>2 DEF SetProgress, Worker
  <2>9. CASE SetTotal(j)
    <3>1. CountOK("total", s) => CountOK("full", [s EXCEPT !.total = s.processed])
      BY <2>0 DEF JobState
    <3> QED
      BY <1>1, <2>9, <3>1 DEF SetTotal, Worker
  <2>10. CASE SetFull(j)
    <3>1. CountOK("full", s) => CountOK("succeed", [s EXCEPT !.progress = 100])
      BY <2>0 DEF JobState
    <3> QED
      BY <1>1, <2>10, <3>1 DEF SetFull, Worker
  <2>11. CASE SetSucceeded(j)
    <3>1. ~s.error
      BY <2>11 DEF SetSucceeded, Worker, Goto, StageInv, CountInv, Running
    <3>2. CountOK("succeed", s) => CountOK("leave", [s EXCEPT !.status = "succeeded"])
      BY <2>0, <3>1 DEF JobState
    <3> QED
      BY <1>1, <2>11, <3>2 DEF SetSucceeded, Worker
  <2>12. CASE SetFailed(j)
    <3>1. CountOK("fail", s) => CountOK("error", [s EXCEPT !.status = "failed"])
      BY <2>0 DEF JobState
    <3> QED
      BY <1>1, <2>12, <3>1 DEF SetFailed, Worker
  <2>13. CASE SetError(j)
    <3>1. s.status = "failed"
      BY <2>13 DEF SetError, Worker, Goto, StageInv
    <3>2. CountOK("error", s) => CountOK("leave", [s EXCEPT !.error = TRUE])
      BY <2>0, <3>1 DEF JobState
    <3> QED
      BY <1>1, <2>13, <3>2 DEF SetError, Worker
  <2>14. CASE Leave(j)
    BY <1>1, <2>14 DEF Leave
  <2> QED
    BY <1>5, <2>1, <2>2, <2>3, <2>4, <2>5, <2>6, <2>7, <2>8, <2>9, <2>10, <2>11, <2>12, <2>13,
       <2>14 DEF RunStep
<1>6. ASSUME NEW j \in Jobs, CancelSet(j)
      PROVE  CountInv'
  <2>1. CountOK(pc[j], job[j]) => CountOK(pc[j], [job[j] EXCEPT !.cancelled = TRUE])
    BY <1>2 DEF JobState
  <2>2. /\ pc' = pc /\ job'[j] = [job[j] EXCEPT !.cancelled = TRUE]
        /\ \A k \in Jobs \ {j} : job'[k] = job[k]
    BY <1>6 DEF CancelSet, TypeOK
  <2> HIDE DEF CountOK
  <2> QED
    BY <2>1, <2>2 DEF CountInv
<1>7. CASE ShutdownPool
  BY <1>7 DEF ShutdownPool, CountInv, TypeOK
<1>8. CASE \/ \E j \in Jobs : PollBegin(j) \/ CancelCheck(j)
           \/ PollField
           \/ \E wait \in BOOLEAN : ShutdownFlag(wait)
           \/ ShutdownReturns
           \/ UNCHANGED vars
  <2>1. UNCHANGED workerVars
    BY <1>8 DEF PollBegin, CancelCheck, PollField, ShutdownFlag, ShutdownReturns, vars
  <2> QED
    BY <2>1 DEF CountInv, workerVars
<1> QED
  BY <1>3, <1>4, <1>5, <1>6, <1>7, <1>8 DEF Next

\* From t to s a JobState has only gone on: counters do not fall, the
\* flag stays up, and a succeeded job is not written again.
Advance(s, t) ==
    /\ s.processed <= t.processed
    /\ s.results <= t.results
    /\ s.cancelled => t.cancelled
    /\ s.status = "succeeded" =>
        /\ t.status = s.status /\ t.progress = s.progress /\ t.total = s.total
        /\ t.processed = s.processed /\ t.error = s.error /\ t.results = s.results

LEMMA JobAdvances ==
    ASSUME TypeOK, StageInv, [Next]_vars, NEW k \in Jobs
    PROVE  Advance(job[k], job'[k])
<1>1. \A j \in Jobs : job[j] \in JobState
  BY DEF TypeOK
<1>2. Advance(job[k], job[k])
  BY <1>1 DEF Advance, JobState
<1>3. ASSUME NEW j \in Jobs, NEW from, NEW to, NEW state, Goto(j, from, to, state),
             Advance(job[j], state)
      PROVE  Advance(job[k], job'[k])
  <2>1. job'[k] = job[k] \/ (k = j /\ job'[k] = state)
    BY <1>3 DEF Goto, TypeOK
  <2> QED
    BY <2>1, <1>2, <1>3
<1>4. ASSUME NEW j \in Jobs, NEW frames \in SourceFrames, NEW arg \in MaxFramesArgs,
             Register(j, frames, arg)
      PROVE  Advance(job[k], job'[k])
  <2>1. Advance(job[j], job[j])
    BY <1>1 DEF Advance, JobState
  <2> QED
    BY <2>1, <1>3, <1>4 DEF Register
<1>5. ASSUME NEW j \in Jobs, SubmitStep(j)
      PROVE  Advance(job[k], job'[k])
  <2>1. Advance(job[j], job[j])
    BY <1>1 DEF Advance, JobState
  <2>2. job' = [job EXCEPT ![j] = job[j]]
    BY <1>5 DEF SubmitStep, CountIn, Enqueue, EnqueueRaises, Goto
  <2> QED
    BY <2>2, <1>2 DEF TypeOK
<1>6. ASSUME NEW j \in Jobs, RunStep(j)
      PROVE  Advance(job[k], job'[k])
  <2> DEFINE s == job[j]
  <2>0. s \in JobState
    BY <1>1
  <2>1. ASSUME job' = job \/ job' = [job EXCEPT ![j] = job[j]]
        PROVE  Advance(job[k], job'[k])
    BY <2>1, <1>2 DEF TypeOK
  <2>2. CASE TakeFrame(j) \/ NoMoreFrames(j) \/ Raise(j) \/ Leave(j)
    BY <2>1, <2>2 DEF TakeFrame, NoMoreFrames, Raise, Leave, Worker, Goto
  <2>3. ASSUME pc[j] \in {"queued", "leave", "done"} \cup Running \cup Leaving, pc[j] # "leave",
               pc[j] # "done"
        PROVE  s.status # "succeeded"
    BY <2>3 DEF StageInv, Running, Leaving
  <2>4. CASE Start(j)
    <3>1. Advance(s, [s EXCEPT !.status = "running"])
      BY <2>0, <2>3, <2>4 DEF Advance, JobState, Start, Goto
    <3> QED
      BY <1>3, <2>4, <3>1 DEF Start
  <2>5. CASE NoticeCancel(j)
    <3>1. Advance(s, [s EXCEPT !.status = "cancelled"])
      BY <2>0, <2>3, <2>5 DEF Advance, JobState, NoticeCancel, Worker, Goto, Running
    <3> QED
      BY <1>3, <2>5, <3>1 DEF NoticeCancel, Worker
  <2>6. CASE Infer(j)
    <3>1. Advance(s, [s EXCEPT !.results = @ + 1])
      BY <2>0, <2>3, <2>6 DEF Advance, JobState, Infer, Goto, Running
    <3> QED
      BY <1>3, <2>6, <3>1 DEF Infer
  <2>7. CASE CountFrame(j)
    <3>1. Advance(s, [s EXCEPT !.processed = @ + 1])
      BY <2>0, <2>3, <2>7 DEF Advance, JobState, CountFrame, Worker, Goto, Running
    <3> QED
      BY <1>3, <2>7, <3>1 DEF CountFrame, Worker
  <2>8. CASE SetProgress(j)
    <3>1. Advance(s, [s EXCEPT !.progress = Progress(s.processed, cap[j])])
      BY <2>0, <2>3, <2>8 DEF Advance, JobState, SetProgress, Worker, Goto, Running
    <3> QED
      BY <1>3, <2>8, <3>1 DEF SetProgress, Worker
  <2>9. CASE SetTotal(j)
    <3>1. Advance(s, [s EXCEPT !.total = s.processed])
      BY <2>0, <2>3, <2>9 DEF Advance, JobState, SetTotal, Worker, Goto, Running
    <3> QED
      BY <1>3, <2>9, <3>1 DEF SetTotal, Worker
  <2>10. CASE SetFull(j)
    <3>1. Advance(s, [s EXCEPT !.progress = 100])
      BY <2>0, <2>3, <2>10 DEF Advance, JobState, SetFull, Worker, Goto, Running
    <3> QED
      BY <1>3, <2>10, <3>1 DEF SetFull, Worker
  <2>11. CASE SetSucceeded(j)
    <3>1. Advance(s, [s EXCEPT !.status = "succeeded"])
      BY <2>0, <2>3, <2>11 DEF Advance, JobState, SetSucceeded, Worker, Goto, Running
    <3> QED
      BY <1>3, <2>11, <3>1 DEF SetSucceeded, Worker
  <2>12. CASE SetFailed(j)
    <3>1. Advance(s, [s EXCEPT !.status = "failed"])
      BY <2>0, <2>3, <2>12 DEF Advance, JobState, SetFailed, Worker, Goto, Running
    <3> QED
      BY <1>3, <2>12, <3>1 DEF SetFailed, Worker
  <2>13. CASE SetError(j)
    <3>1. s.status # "succeeded"
      <4>1. pc[j] = "error"
        BY <2>13, Zenon DEF SetError, Worker, Goto
      <4> QED
        BY <4>1 DEF StageInv
    <3>2. Advance(s, [s EXCEPT !.error = TRUE])
      <4> DEFINE t == [s EXCEPT !.error = TRUE]
      <4>1. /\ s.processed \in Nat /\ t.processed = s.processed
            /\ s.results \in Nat /\ t.results = s.results
        BY <2>0 DEF JobState
      <4>2. s.cancelled => t.cancelled
        BY <2>0 DEF JobState
      <4>3. Advance(s, t)
        <5> HIDE DEF s, t
        <5> QED
          BY <3>1, <4>1, <4>2 DEF Advance
      <4> QED
        BY <4>3
    <3> QED
      BY <1>3, <2>13, <3>2 DEF SetError, Worker
  <2> QED
    BY <1>6, <2>2, <2>4, <2>5, <2>6, <2>7, <2>8, <2>9, <2>10, <2>11, <2>12, <2>13 DEF RunStep
<1>7. ASSUME NEW j \in Jobs, CancelSet(j)
      PROVE  Advance(job[k], job'[k])
  <2>1. Advance(job[k], [job[k] EXCEPT !.cancelled = TRUE])
    BY <1>1 DEF Advance, JobState
  <2>2. job'[k] = job[k] \/ job'[k] = [job[k] EXCEPT !.cancelled = TRUE]
    BY <1>7 DEF CancelSet, TypeOK
  <2> QED
    BY <2>1, <2>2, <1>2
<1>8. CASE \/ \E j \in Jobs : PollBegin(j) \/ CancelCheck(j)
           \/ PollField
           \/ \E wait \in BOOLEAN : ShutdownFlag(wait)
           \/ ShutdownPool
           \/ ShutdownReturns
           \/ UNCHANGED vars
  <2>1. UNCHANGED job
    BY <1>8 DEF PollBegin, CancelCheck, PollField, ShutdownFlag, ShutdownPool, ShutdownReturns,
                vars, workerVars
  <2> QED
    BY <2>1, <1>2
<1> QED
  BY <1>4, <1>5, <1>6, <1>7, <1>8 DEF Next

LEMMA PollStep ==
    ASSUME TypeOK, PoolInv, StageInv, CountInv, PollInv, [Next]_vars
    PROVE  PollInv'
<1>1. ASSUME UNCHANGED pollVars
      PROVE  PollInv'
  <2> SUFFICES ASSUME reader # NoJob
               PROVE  PollInv'
    BY <1>1 DEF PollInv, pollVars
  <2>1. Advance(job[reader], job'[reader])
    BY JobAdvances DEF TypeOK
  <2>2. /\ reader' = reader /\ field' = field /\ snapshot' = snapshot
        /\ job[reader] \in JobState /\ job'[reader] \in JobState
        /\ snapshot \in JobState /\ field \in Nat
    <3>1. reader \in Jobs
      BY DEF TypeOK
    <3>2. job' \in [Jobs -> JobState]
      BY NextTyped DEF TypeOK
    <3> QED
      BY <1>1, <3>1, <3>2 DEF pollVars, TypeOK, FieldOrder
  <2> QED
    BY <2>1, <2>2 DEF PollInv, Advance, JobState
<1>2. ASSUME NEW j \in Jobs, PollBegin(j)
      PROVE  PollInv'
  BY <1>2 DEF PollBegin, PollInv
<1>3. CASE PollField
  <2> DEFINE r == job[reader]
  <2>1. /\ reader \in Jobs /\ reader # NoJob /\ reader' = reader /\ job' = job
        /\ field' = field + 1 /\ field \in {1, 2, 3, 4, 5, 6}
    <3>1. /\ reader \in Jobs /\ reader # NoJob /\ reader' = reader /\ job' = job
          /\ field' = field + 1
      BY <1>3 DEF PollField, TypeOK, workerVars
    <3>2. field \in 1..Len(FieldOrder)
      BY <1>3 DEF PollField, TypeOK, FieldOrder
    <3> QED
      BY <3>1, <3>2 DEF FieldOrder
  <2>2. r \in JobState /\ snapshot \in JobState
    BY <2>1 DEF TypeOK
  <2>3. CountOK(pc[reader], r)
    BY <2>1 DEF CountInv
  <2>4. snapshot' = [snapshot EXCEPT ![FieldOrder[field]] = r[FieldOrder[field]]]
    BY <1>3 DEF PollField
  <2>5. CASE field = 1
    <3>1. snapshot' = [snapshot EXCEPT !.status = r.status]
      BY <2>4, <2>5 DEF FieldOrder
    <3> QED
      BY <2>1, <2>2, <2>5, <3>1 DEF PollInv, JobState
  <2>6. CASE field = 2
    <3>1. snapshot' = [snapshot EXCEPT !.progress = r.progress]
      BY <2>4, <2>6 DEF FieldOrder
    <3> QED
      BY <2>1, <2>2, <2>3, <2>6, <3>1 DEF PollInv, JobState, CountOK
  <2>7. CASE field = 3
    <3>1. snapshot' = [snapshot EXCEPT !.total = r.total]
      BY <2>4, <2>7 DEF FieldOrder
    <3> QED
      BY <2>1, <2>2, <2>3, <2>7, <3>1 DEF PollInv, JobState, CountOK
  <2>8. CASE field = 4
    <3>1. snapshot' = [snapshot EXCEPT !.processed = r.processed]
      BY <2>4, <2>8 DEF FieldOrder
    <3> QED
      BY <2>1, <2>2, <2>3, <2>8, <3>1 DEF PollInv, JobState, CountOK
  <2>9. CASE field = 5
    <3>1. snapshot' = [snapshot EXCEPT !.error = r.error]
      BY <2>4, <2>9 DEF FieldOrder
    <3> QED
      BY <2>1, <2>2, <2>3, <2>9, <3>1 DEF PollInv, JobState, CountOK
  <2>10. CASE field = 6
    <3>1. snapshot' = [snapshot EXCEPT !.results = r.results]
      BY <2>4, <2>10 DEF FieldOrder
    <3> QED
      BY <2>1, <2>2, <2>3, <2>10, <3>1 DEF PollInv, JobState, CountOK
  <2> QED
    BY <2>1, <2>5, <2>6, <2>7, <2>8, <2>9, <2>10
<1>4. ASSUME NEW j \in Jobs, SubmitStep(j) \/ RunStep(j)
      PROVE  PollInv'
  BY <1>1, <1>4, StepsGoto
<1>5. CASE \/ \E j \in Jobs : \/ \E frames \in SourceFrames, arg \in MaxFramesArgs :
                                   Register(j, frames, arg)
                             \/ CancelCheck(j)
                             \/ CancelSet(j)
           \/ \E wait \in BOOLEAN : ShutdownFlag(wait)
           \/ ShutdownPool
           \/ ShutdownReturns
           \/ UNCHANGED vars
  BY <1>1, <1>5 DEF Register, CancelCheck, CancelSet, ShutdownFlag, ShutdownPool,
                    ShutdownReturns, vars
<1> QED
  BY <1>2, <1>3, <1>4, <1>5 DEF Next

LEMMA LateStep ==
    ASSUME TypeOK, StageInv, LateInv, [Next]_vars
    PROVE  LateInv'
<1>1. ASSUME NEW j \in Jobs, NEW from, NEW to, NEW state, Goto(j, from, to, state),
             to # "infer" \/ ~job[j].cancelled, UNCHANGED lateResults
      PROVE  LateInv'
  <2>1. \A k \in Jobs : job[k].cancelled => job'[k].cancelled
    BY JobAdvances DEF Advance
  <2>2. \A k \in Jobs : pc'[k] = pc[k] \/ (k = j /\ pc'[k] = to)
    BY <1>1, Zenon DEF Goto, TypeOK
  <2> QED
    BY <1>1, <2>1, <2>2 DEF LateInv
<1>2. \A j \in Jobs : job[j] \in JobState
  BY DEF TypeOK
<1>3. ASSUME NEW j \in Jobs, RunStep(j)
      PROVE  LateInv'
  <2> DEFINE s == job[j]
  <2>0. s \in JobState
    BY <1>2
  <2>1. CASE Infer(j)
    <3>0. pc[j] = "infer"
      BY <2>1, Zenon DEF Infer, Goto
    <3>1. lateResults[j] # 1
      BY <3>0 DEF LateInv
    <3>2. lateResults[j] = 0
      <4>1. lateResults[j] <= 1
        BY DEF LateInv
      <4>2. lateResults[j] \in Nat
        BY DEF TypeOK
      <4> QED
        BY <3>1, <4>1, <4>2
    <3>3. /\ pc'[j] = "count" /\ job'[j].cancelled = s.cancelled
          /\ \A k \in Jobs \ {j} : pc'[k] = pc[k] /\ job'[k] = job[k]
      BY <2>0, <2>1 DEF Infer, Goto, TypeOK, JobState
    <3>4. /\ \A k \in Jobs \ {j} : lateResults'[k] = lateResults[k]
          /\ lateResults'[j] = 0 \/ (lateResults'[j] = 1 /\ s.cancelled)
      BY <2>1, <3>2 DEF Infer, TypeOK
    <3> QED
      BY <3>3, <3>4 DEF LateInv
  <2>2. CASE TakeFrame(j) \/ NoMoreFrames(j) \/ Raise(j) \/ Leave(j)
    BY <1>1, <2>2 DEF TakeFrame, NoMoreFrames, Raise, Leave, Worker, cancelVars
  <2>3. CASE Start(j)
    BY <1>1, <2>3 DEF Start, cancelVars
  <2>4. CASE NoticeCancel(j)
    BY <1>1, <2>4 DEF NoticeCancel, Worker, cancelVars
  <2>5. CASE CountFrame(j)
    BY <1>1, <2>5 DEF CountFrame, Worker, cancelVars
  <2>6. CASE SetProgress(j)
    BY <1>1, <2>6 DEF SetProgress, Worker, cancelVars
  <2>7. CASE SetTotal(j)
    BY <1>1, <2>7 DEF SetTotal, Worker, cancelVars
  <2>8. CASE SetFull(j)
    BY <1>1, <2>8 DEF SetFull, Worker, cancelVars
  <2>9. CASE SetSucceeded(j)
    BY <1>1, <2>9 DEF SetSucceeded, Worker, cancelVars
  <2>10. CASE SetFailed(j)
    BY <1>1, <2>10 DEF SetFailed, Worker, cancelVars
  <2>11. CASE SetError(j)
    BY <1>1, <2>11 DEF SetError, Worker, cancelVars
  <2> QED
    BY <1>3, <2>1, <2>2, <2>3, <2>4, <2>5, <2>6, <2>7, <2>8, <2>9, <2>10, <2>11 DEF RunStep
<1>4. ASSUME NEW j \in Jobs, NEW frames \in SourceFrames, NEW arg \in MaxFramesArgs,
             Register(j, frames, arg)
      PROVE  LateInv'
  BY <1>1, <1>4 DEF Register, cancelVars
<1>5. ASSUME NEW j \in Jobs, SubmitStep(j)
      PROVE  LateInv'
  <2>1. CASE CountIn(j)
    BY <1>1, <2>1 DEF CountIn, cancelVars
  <2>2. CASE Enqueue(j)
    BY <1>1, <2>2 DEF Enqueue, cancelVars
  <2>3. CASE EnqueueRaises(j)
    BY <1>1, <2>3 DEF EnqueueRaises, cancelVars
  <2> QED
    BY <1>5, <2>1, <2>2, <2>3 DEF SubmitStep
<1>6. ASSUME NEW j \in Jobs, CancelSet(j)
      PROVE  LateInv'
  <2>1. \A k \in Jobs : job[k].cancelled => job'[k].cancelled
    BY <1>2, <1>6 DEF CancelSet, TypeOK, JobState
  <2> QED
    BY <2>1, <1>6 DEF CancelSet, LateInv
<1>7. CASE ShutdownPool
  BY <1>7 DEF ShutdownPool, LateInv, TypeOK, cancelVars
<1>8. CASE \/ \E j \in Jobs : PollBegin(j) \/ CancelCheck(j)
           \/ PollField
           \/ \E wait \in BOOLEAN : ShutdownFlag(wait)
           \/ ShutdownReturns
           \/ UNCHANGED vars
  <2>1. UNCHANGED <<pc, job, lateResults>>
    BY <1>8 DEF PollBegin, CancelCheck, PollField, ShutdownFlag, ShutdownReturns, vars,
                workerVars, cancelVars
  <2> QED
    BY <2>1 DEF LateInv
<1> QED
  BY <1>3, <1>4, <1>5, <1>6, <1>7, <1>8 DEF Next

\* The inductive invariant of the job manager.
THEOREM JobInvariant == Spec => []JobInv
<1>1. Init => JobInv
  <2> SUFFICES ASSUME Init
               PROVE  JobInv
    OBVIOUS
  <2>1. StageInv
    BY DEF Init, StageInv, NewJob, Submitting, Running, Known
  <2>2. CountInv
    BY DEF Init, CountInv, CountOK, NewJob
  <2>3. PollInv /\ LateInv /\ PoolInv
    BY ShutdownsAssumption DEF Init, PollInv, LateInv, PoolInv
  <2> QED
    BY <2>1, <2>2, <2>3 DEF JobInv
<1>2. TypeOK /\ JobInv /\ [Next]_vars => JobInv'
  BY NextTyped, StageStep, CountStep, PollStep, LateStep DEF JobInv
<1> QED
  BY <1>1, <1>2, TypeCorrect, PTL DEF Spec

\* A snapshot that to_dict took field by field, with no lock, while the
\* worker went on writing, is coherent.
THEOREM SnapshotsCohere == Spec => []SnapshotCoherent
<1>1. TypeOK /\ JobInv => SnapshotCoherent
  <2> SUFFICES ASSUME TypeOK, JobInv, reader # NoJob, field > Len(FieldOrder)
               PROVE  /\ snapshot.total <= snapshot.processed
                      /\ snapshot.processed <= snapshot.results
                      /\ snapshot.status = "succeeded" =>
                            /\ snapshot.progress = 100
                            /\ snapshot.total = snapshot.processed
                            /\ snapshot.processed = snapshot.results
                            /\ ~snapshot.error
    BY DEF SnapshotCoherent
  <2>1. field > 6 /\ field \in Nat
    BY DEF FieldOrder, TypeOK
  <2>2. reader \in Jobs
    BY DEF TypeOK
  <2>3. job[reader] \in JobState /\ CountOK(pc[reader], job[reader])
    BY <2>2 DEF TypeOK, JobInv, CountInv
  <2>4. job[reader].status = "succeeded" =>
            job[reader].total = job[reader].processed /\ job[reader].processed = job[reader].results
    <3>1. job[reader].status = "succeeded" => pc[reader] # "count"
      BY <2>2 DEF JobInv, StageInv, Running
    <3> QED
      BY <3>1, <2>3 DEF CountOK, JobState
  <2> QED
    BY <2>1, <2>4 DEF JobInv, PollInv
<1> QED
  BY <1>1, TypeCorrect, JobInvariant, PTL

\* After its flag is set a job appends the result of one frame at most.
THEOREM CancelStops == Spec => []CancelStopsWork
<1>1. JobInv => CancelStopsWork
  BY DEF JobInv, LateInv, CancelStopsWork
<1> QED
  BY <1>1, JobInvariant, PTL

\* The job manager implements the lifecycle its clients rely on: the initial
\* state is one of the lifecycle, and a step of any thread is a step of the
\* lifecycle or changes nothing a client can tell.
THEOREM Refinement == Spec => RefinesLifecycle
<1> DEFINE st == [j \in Jobs |-> IF Known(j) THEN job[j].status ELSE "absent"]
           asked == {j \in Jobs : job[j].cancelled}
<1>1. Init => Lifecycle!Init
  BY DEF Init, Lifecycle!Init, Known, NewJob
<1>2. TypeOK /\ StageInv /\ [Next]_vars => [Lifecycle!Next]_<<st, asked>>
  <2> SUFFICES ASSUME TypeOK, StageInv, [Next]_vars
               PROVE  [Lifecycle!Next]_<<st, asked>>
    OBVIOUS
  <2>1. \A j \in Jobs : job[j] \in JobState
    BY DEF TypeOK
  <2>2. ASSUME NEW j \in Jobs, NEW from, NEW to, NEW state, Goto(j, from, to, state),
               from # "new", to # "new", state.cancelled <=> job[j].cancelled
        PROVE  /\ st[j] = job[j].status
               /\ st' = [st EXCEPT ![j] = state.status]
               /\ asked' = asked
    <3>1. /\ pc[j] = from /\ pc'[j] = to /\ job'[j] = state
          /\ \A k \in Jobs \ {j} : pc'[k] = pc[k] /\ job'[k] = job[k]
      BY <2>2 DEF Goto, TypeOK
    <3>2. st[j] = job[j].status /\ st'[j] = state.status
      BY <2>2, <3>1 DEF Known
    <3>3. \A k \in Jobs \ {j} : st'[k] = st[k]
      BY <3>1 DEF Known
    <3>4. \A k \in Jobs : job'[k].cancelled <=> job[k].cancelled
      BY <2>2, <3>1
    <3> HIDE DEF st
    <3>5. st' = [st EXCEPT ![j] = state.status]
      <4>1. st \in [Jobs -> {st[k] : k \in Jobs}] /\ st' \in [Jobs -> {st'[k] : k \in Jobs}]
        BY DEF st
      <4> QED
        BY <3>2, <3>3, <4>1
    <3> QED
      BY <3>2, <3>4, <3>5
  <2>3. ASSUME NEW j \in Jobs, NEW from, NEW to, NEW state, Goto(j, from, to, state),
               from # "new", to # "new", state.cancelled <=> job[j].cancelled,
               state.status = job[j].status
        PROVE  UNCHANGED <<st, asked>>
    <3>1. st[j] = job[j].status /\ st' = [st EXCEPT ![j] = state.status] /\ asked' = asked
      BY <2>2, <2>3
    <3> QED
      BY <3>1, <2>3
  <2>4. ASSUME NEW j \in Jobs, NEW frames \in SourceFrames, NEW arg \in MaxFramesArgs,
               Register(j, frames, arg)
        PROVE  Lifecycle!Submit(j)
    <3>1. /\ pc[j] = "new" /\ pc'[j] = "registered" /\ job'[j] = job[j]
          /\ job[j].status = "pending"
          /\ \A k \in Jobs \ {j} : pc'[k] = pc[k] /\ job'[k] = job[k]
      BY <2>4 DEF Register, Goto, TypeOK, StageInv, Submitting
    <3>2. st[j] = "absent" /\ st'[j] = "pending" /\ \A k \in Jobs \ {j} : st'[k] = st[k]
      BY <3>1 DEF Known
    <3>3. asked' = asked
      BY <3>1
    <3>4. st' = [st EXCEPT ![j] = "pending"]
      BY <3>2
    <3> QED
      BY <3>2, <3>3, <3>4 DEF Lifecycle!Submit, Lifecycle!Move
  <2>5. ASSUME NEW j \in Jobs, SubmitStep(j)
        PROVE  UNCHANGED <<st, asked>>
    <3>1. CASE CountIn(j)
      BY <2>3, <3>1 DEF CountIn
    <3>2. CASE Enqueue(j)
      BY <2>3, <3>2 DEF Enqueue
    <3>3. CASE EnqueueRaises(j)
      BY <2>3, <3>3 DEF EnqueueRaises
    <3> QED
      BY <2>5, <3>1, <3>2, <3>3 DEF SubmitStep
  <2>6. ASSUME NEW j \in Jobs, RunStep(j)
        PROVE  [Lifecycle!Next]_<<st, asked>>
    <3> DEFINE s == job[j]
    <3>0. s \in JobState
      BY <2>1
    <3>1. CASE TakeFrame(j) \/ NoMoreFrames(j) \/ Raise(j)
      BY <2>3, <3>1 DEF TakeFrame, NoMoreFrames, Raise, Worker
    <3>2. CASE Start(j)
      <4>1. /\ [s EXCEPT !.status = "running"].status = "running"
            /\ [s EXCEPT !.status = "running"].cancelled <=> s.cancelled
        BY <3>0 DEF JobState
      <4>2. s.status = "pending"
        BY <3>2 DEF Start, Goto, StageInv
      <4>3. st[j] = s.status /\ st' = [st EXCEPT ![j] = "running"] /\ asked' = asked
        <5> DEFINE t == [s EXCEPT !.status = "running"]
        <5>1. Goto(j, "queued", "frame", t)
          BY <3>2 DEF Start
        <5>2. t.status = "running" /\ (t.cancelled <=> job[j].cancelled)
          BY <4>1
        <5> HIDE DEF t, st, asked
        <5>3. st[j] = job[j].status /\ st' = [st EXCEPT ![j] = t.status] /\ asked' = asked
          BY <2>2, <5>1, <5>2
        <5> QED
          BY <5>2, <5>3
      <4> QED
        BY <4>2, <4>3 DEF Lifecycle!Next, Lifecycle!Start, Lifecycle!Move
    <3>3. CASE NoticeCancel(j)
      <4>1. /\ [s EXCEPT !.status = "cancelled"].status = "cancelled"
            /\ [s EXCEPT !.status = "cancelled"].cancelled <=> s.cancelled
        BY <3>0 DEF JobState
      <4>2. s.status = "running"
        BY <3>3 DEF NoticeCancel, Worker, Goto, StageInv, Running
      <4>3. st[j] = s.status /\ st' = [st EXCEPT ![j] = "cancelled"] /\ asked' = asked
        <5> DEFINE t == [s EXCEPT !.status = "cancelled"]
        <5>1. Goto(j, "frame", "leave", t)
          BY <3>3 DEF NoticeCancel, Worker
        <5>2. t.status = "cancelled" /\ (t.cancelled <=> job[j].cancelled)
          BY <4>1
        <5> HIDE DEF t, st, asked
        <5>3. st[j] = job[j].status /\ st' = [st EXCEPT ![j] = t.status] /\ asked' = asked
          BY <2>2, <5>1, <5>2
        <5> QED
          BY <5>2, <5>3
      <4>4. j \in asked
        BY <3>3 DEF NoticeCancel
      <4> QED
        BY <4>2, <4>3, <4>4 DEF Lifecycle!Next, Lifecycle!Cancel, Lifecycle!Move
    <3>4. CASE Infer(j)
      <4>1. /\ [s EXCEPT !.results = @ + 1].status = s.status
            /\ [s EXCEPT !.results = @ + 1].cancelled <=> s.cancelled
        BY <3>0 DEF JobState
      <4> QED
        BY <2>3, <3>4, <4>1 DEF Infer
    <3>5. CASE CountFrame(j)
      <4>1. /\ [s EXCEPT !.processed = @ + 1].status = s.status
            /\ [s EXCEPT !.processed = @ + 1].cancelled <=> s.cancelled
        BY <3>0 DEF JobState
      <4> QED
        BY <2>3, <3>5, <4>1 DEF CountFrame, Worker
    <3>6. CASE SetProgress(j)
      <4>1. /\ [s EXCEPT !.progress = Progress(s.processed, cap[j])].status = s.status
            /\ [s EXCEPT !.progress = Progress(s.processed, cap[j])].cancelled <=> s.cancelled
        BY <3>0 DEF JobState
      <4> QED
        BY <2>3, <3>6, <4>1 DEF SetProgress, Worker
    <3>7. CASE SetTotal(j)
      <4>1. /\ [s EXCEPT !.total = s.processed].status = s.status
            /\ [s EXCEPT !.total = s.processed].cancelled <=> s.cancelled
        BY <3>0 DEF JobState
      <4> QED
        BY <2>3, <3>7, <4>1 DEF SetTotal, Worker
    <3>8. CASE SetFull(j)
      <4>1. /\ [s EXCEPT !.progress = 100].status = s.status
            /\ [s EXCEPT !.progress = 100].cancelled <=> s.cancelled
        BY <3>0 DEF JobState
      <4> QED
        BY <2>3, <3>8, <4>1 DEF SetFull, Worker
    <3>9. CASE SetSucceeded(j)
      <4>1. /\ [s EXCEPT !.status = "succeeded"].status = "succeeded"
            /\ [s EXCEPT !.status = "succeeded"].cancelled <=> s.cancelled
        BY <3>0 DEF JobState
      <4>2. s.status = "running"
        BY <3>9 DEF SetSucceeded, Worker, Goto, StageInv, Running
      <4>3. st[j] = s.status /\ st' = [st EXCEPT ![j] = "succeeded"] /\ asked' = asked
        <5> DEFINE t == [s EXCEPT !.status = "succeeded"]
        <5>1. Goto(j, "succeed", "leave", t)
          BY <3>9 DEF SetSucceeded, Worker
        <5>2. t.status = "succeeded" /\ (t.cancelled <=> job[j].cancelled)
          BY <4>1
        <5> HIDE DEF t, st, asked
        <5>3. st[j] = job[j].status /\ st' = [st EXCEPT ![j] = t.status] /\ asked' = asked
          BY <2>2, <5>1, <5>2
        <5> QED
          BY <5>2, <5>3
      <4> QED
        BY <4>2, <4>3 DEF Lifecycle!Next, Lifecycle!Succeed, Lifecycle!Move
    <3>10. CASE SetFailed(j)
      <4>1. /\ [s EXCEPT !.status = "failed"].status = "failed"
            /\ [s EXCEPT !.status = "failed"].cancelled <=> s.cancelled
        BY <3>0 DEF JobState
      <4>2. s.status = "running"
        BY <3>10 DEF SetFailed, Worker, Goto, StageInv, Running
      <4>3. st[j] = s.status /\ st' = [st EXCEPT ![j] = "failed"] /\ asked' = asked
        <5> DEFINE t == [s EXCEPT !.status = "failed"]
        <5>1. Goto(j, "fail", "error", t)
          BY <3>10 DEF SetFailed, Worker
        <5>2. t.status = "failed" /\ (t.cancelled <=> job[j].cancelled)
          BY <4>1
        <5> HIDE DEF t, st, asked
        <5>3. st[j] = job[j].status /\ st' = [st EXCEPT ![j] = t.status] /\ asked' = asked
          BY <2>2, <5>1, <5>2
        <5> QED
          BY <5>2, <5>3
      <4> QED
        BY <4>2, <4>3 DEF Lifecycle!Next, Lifecycle!Fail, Lifecycle!Move
    <3>11. CASE SetError(j)
      <4>1. /\ [s EXCEPT !.error = TRUE].status = s.status
            /\ [s EXCEPT !.error = TRUE].cancelled <=> s.cancelled
        BY <3>0 DEF JobState
      <4> QED
        BY <2>3, <3>11, <4>1 DEF SetError, Worker
    <3>12. CASE Leave(j)
      BY <2>3, <3>12 DEF Leave
    <3> QED
      BY <2>6, <3>1, <3>2, <3>3, <3>4, <3>5, <3>6, <3>7, <3>8, <3>9, <3>10, <3>11, <3>12
      DEF RunStep
  <2>7. ASSUME NEW j \in Jobs, CancelSet(j)
        PROVE  Lifecycle!Ask(j)
    <3>1. /\ pc' = pc /\ Known(j)
          /\ \A k \in Jobs : job'[k].status = job[k].status
      BY <2>1, <2>7 DEF CancelSet, TypeOK, JobState, StageInv
    <3>2. asked' = asked \cup {j}
      BY <2>1, <2>7 DEF CancelSet, TypeOK, JobState
    <3>3. st[j] # "absent"
      BY <3>1, <2>1 DEF JobState, JobStatus
    <3>4. st' = st
      BY <3>1 DEF Known
    <3> QED
      BY <3>2, <3>3, <3>4 DEF Lifecycle!Ask
  <2>8. CASE ShutdownPool
    <3>1. job' = job /\ \A j \in Jobs : pc'[j] = "new" <=> pc[j] = "new"
      BY <2>8 DEF ShutdownPool, TypeOK
    <3> QED
      BY <3>1 DEF Known
  <2>9. CASE \/ \E j \in Jobs : PollBegin(j) \/ CancelCheck(j)
             \/ PollField
             \/ \E wait \in BOOLEAN : ShutdownFlag(wait)
             \/ ShutdownReturns
             \/ UNCHANGED vars
    <3>1. UNCHANGED <<pc, job>>
      BY <2>9 DEF PollBegin, CancelCheck, PollField, ShutdownFlag, ShutdownReturns, vars,
                  workerVars
    <3> QED
      BY <3>1 DEF Known
  <2> HIDE DEF st, asked
  <2> QED
    BY <2>4, <2>5, <2>6, <2>7, <2>8, <2>9 DEF Next, Lifecycle!Next
<1> QED
  BY <1>1, <1>2, TypeCorrect, JobInvariant, PTL DEF Spec, RefinesLifecycle, Lifecycle!Spec, JobInv
-------------------------------------------------------------------------------
\* The jobs that have been counted in and not out.  There may be any number of
\* ids; of these there are finitely many.
Uncounted == {"new", "registered", "done"}
Counted == {j \in Jobs : pc[j] \notin Uncounted}

GaugeInv == IsFiniteSet(Counted) /\ activeJobs = Cardinality(Counted)

\* A step that keeps a job on its side of the count keeps the gauge exact.
LEMMA NobodyCounted ==
    ASSUME GaugeInv, activeJobs' = activeJobs,
           \A j \in Jobs : pc'[j] \in Uncounted <=> pc[j] \in Uncounted
    PROVE  GaugeInv'
<1>1. Counted' = Counted
  BY DEF Counted
<1> QED
  BY <1>1 DEF GaugeInv

\* Such as every step of a worker but the last one.
LEMMA GotoCounted ==
    ASSUME TypeOK, GaugeInv, activeJobs' = activeJobs, NEW j \in Jobs, NEW from, NEW to, NEW state,
           Goto(j, from, to, state), to \in Uncounted <=> from \in Uncounted
    PROVE  GaugeInv'
<1>1. \A k \in Jobs : pc'[k] \in Uncounted <=> pc[k] \in Uncounted
  BY DEF Goto, TypeOK
<1> QED
  BY <1>1, NobodyCounted

LEMMA GaugeStep ==
    ASSUME TypeOK, GaugeInv, [Next]_vars
    PROVE  GaugeInv'
<1> USE DEF Uncounted
<1>1. ASSUME NEW j \in Jobs, NEW frames \in SourceFrames, NEW arg \in MaxFramesArgs,
             Register(j, frames, arg)
      PROVE  GaugeInv'
  <2>1. Goto(j, "new", "registered", job[j]) /\ activeJobs' = activeJobs
    BY <1>1 DEF Register
  <2> QED
    BY <2>1, GotoCounted
<1>2. ASSUME NEW j \in Jobs, CountIn(j) PROVE GaugeInv'
  <2>1. pc[j] = "registered" /\ pc' = [pc EXCEPT ![j] = "counted"] /\ activeJobs' = activeJobs + 1
    BY <1>2 DEF CountIn, Goto
  <2>2. Counted' = Counted \cup {j} /\ j \notin Counted
    BY <2>1 DEF Counted, TypeOK
  <2>3. IsFiniteSet(Counted') /\ Cardinality(Counted') = Cardinality(Counted) + 1
    BY <2>2, FS_AddElement DEF GaugeInv
  <2> QED
    BY <2>1, <2>3 DEF GaugeInv
<1>3. ASSUME NEW j \in Jobs, Leave(j) PROVE GaugeInv'
  <2>1. pc[j] = "leave" /\ pc' = [pc EXCEPT ![j] = "done"] /\ activeJobs' = activeJobs - 1
    BY <1>3 DEF Leave, Goto
  <2>2. Counted' = Counted \ {j} /\ j \in Counted
    BY <2>1 DEF Counted, TypeOK
  <2>3. IsFiniteSet(Counted') /\ Cardinality(Counted') = Cardinality(Counted) - 1
    BY <2>2, FS_RemoveElement DEF GaugeInv
  <2> QED
    BY <2>1, <2>3 DEF GaugeInv
<1>4. ASSUME NEW j \in Jobs, Enqueue(j) \/ EnqueueRaises(j) PROVE GaugeInv'
  <2>1. Goto(j, "counted", "queued", job[j]) \/ Goto(j, "counted", "raised", job[j])
    BY <1>4 DEF Enqueue, EnqueueRaises
  <2>2. activeJobs' = activeJobs
    BY <1>4 DEF Enqueue, EnqueueRaises
  <2> QED
    BY <2>1, <2>2, GotoCounted
<1>5. ASSUME NEW j \in Jobs, Start(j) \/ Infer(j) PROVE GaugeInv'
  <2>1. \/ \E state : Goto(j, "queued", "frame", state)
        \/ \E state : Goto(j, "infer", "count", state)
    BY <1>5 DEF Start, Infer
  <2>2. activeJobs' = activeJobs
    BY <1>5 DEF Start, Infer
  <2> QED
    BY <2>1, <2>2, GotoCounted
<1>6. ASSUME NEW j \in Jobs, NEW from \in Busy, NEW to \in Busy, NEW state, Worker(j, from, to, state)
      PROVE  GaugeInv'
  BY <1>6, GotoCounted DEF Worker, Busy, Running, Leaving
<1>7. ASSUME NEW j \in Jobs, RunStep(j) PROVE GaugeInv'
  BY <1>3, <1>5, <1>6, <1>7 DEF RunStep, TakeFrame, NoticeCancel, NoMoreFrames, Raise, CountFrame, SetProgress,
        SetTotal, SetFull, SetSucceeded, SetFailed, SetError, Busy, Running, Leaving
<1>8. CASE UNCHANGED <<pc, activeJobs>>
  BY <1>8, NobodyCounted
<1>9. ASSUME NEW j \in Jobs, CancelCheck(j) \/ CancelSet(j) \/ PollBegin(j) PROVE GaugeInv'
  BY <1>8, <1>9 DEF CancelCheck, CancelSet, PollBegin, workerVars
<1>10. CASE ShutdownPool
  <2>1. activeJobs' = activeJobs
    BY <1>10 DEF ShutdownPool
  <2>2. \A j \in Jobs : pc'[j] \in Uncounted <=> pc[j] \in Uncounted
    BY <1>10 DEF ShutdownPool
  <2> QED
    BY <2>1, <2>2, NobodyCounted
<1>11. CASE PollField \/ ShutdownReturns \/ (\E wait \in BOOLEAN : ShutdownFlag(wait)) \/ UNCHANGED vars
  BY <1>8, <1>11 DEF PollField, ShutdownReturns, ShutdownFlag, vars, workerVars
<1> QED
  BY <1>1, <1>2, <1>4, <1>7, <1>9, <1>10, <1>11 DEF Next, SubmitStep

\* Before the first shutdown no pool is down, and nobody is stranded.
StrandedInv == shutdowns = 0 => down = {} /\ closing.step # "flagged" /\ Stranded = {}

LEMMA StrandedStep ==
    ASSUME TypeOK, StrandedInv, [Next]_vars
    PROVE  StrandedInv'
<1> SUFFICES ASSUME shutdowns' = 0 PROVE (down = {} /\ closing.step # "flagged" /\ Stranded = {})'
  BY DEF StrandedInv
<1>1. ASSUME NEW wait \in BOOLEAN, ShutdownFlag(wait) PROVE FALSE
  BY <1>1 DEF ShutdownFlag, TypeOK
<1>2. CASE UNCHANGED <<pc, down, closing, shutdowns>>
  BY <1>2 DEF StrandedInv, Stranded
<1>3. CASE ShutdownPool
  <2>1. shutdowns = 0 /\ closing.step = "flagged"
    BY <1>3 DEF ShutdownPool
  <2> QED
    BY <2>1 DEF StrandedInv
<1>4. CASE ShutdownReturns
  BY <1>4 DEF ShutdownReturns, workerVars, StrandedInv, Stranded
<1>5. ASSUME UNCHANGED <<down, closing, shutdowns>>, NEW j \in Jobs, NEW from, NEW to, NEW state,
             Goto(j, from, to, state), to \notin {"raised", "dropped"}
      PROVE  StrandedInv'
  BY <1>5 DEF Goto, TypeOK, StrandedInv, Stranded
<1>6. ASSUME NEW j \in Jobs, NEW frames \in SourceFrames, NEW arg \in MaxFramesArgs,
             Register(j, frames, arg)
      PROVE  StrandedInv'
  <2>1. Goto(j, "new", "registered", job[j]) /\ UNCHANGED <<down, closing, shutdowns>>
    BY <1>6 DEF Register
  <2> QED
    BY <1>5, <2>1
<1>7. ASSUME NEW j \in Jobs, SubmitStep(j) PROVE StrandedInv'
  <2>1. UNCHANGED <<down, closing, shutdowns>>
    BY <1>7 DEF SubmitStep, CountIn, Enqueue, EnqueueRaises, poolVars
  <2>2. ~EnqueueRaises(j)
    BY <2>1 DEF EnqueueRaises, StrandedInv
  <2>3. Goto(j, "registered", "counted", job[j]) \/ Goto(j, "counted", "queued", job[j])
    BY <1>7, <2>2 DEF SubmitStep, CountIn, Enqueue
  <2> QED
    BY <1>5, <2>1, <2>3
<1>8. ASSUME NEW j \in Jobs, RunStep(j) PROVE StrandedInv'
  <2>1. UNCHANGED <<down, closing, shutdowns>>
    BY <1>8 DEF RunStep, Start, TakeFrame, NoticeCancel, NoMoreFrames, Raise, Infer, CountFrame,
          SetProgress, SetTotal, SetFull, SetSucceeded, SetFailed, SetError, Leave, Worker, poolVars
  <2>2. \E from, state : \E to \in Busy \cup {"done"} : Goto(j, from, to, state)
    BY <1>8 DEF RunStep, Start, TakeFrame, NoticeCancel, NoMoreFrames, Raise, Infer, CountFrame,
          SetProgress, SetTotal, SetFull, SetSucceeded, SetFailed, SetError, Leave, Worker,
          Busy, Running, Leaving
  <2> QED
    BY <1>5, <2>1, <2>2 DEF Busy, Running, Leaving
<1>9. ASSUME NEW j \in Jobs, CancelCheck(j) \/ CancelSet(j) \/ PollBegin(j) PROVE StrandedInv'
  BY <1>2, <1>9 DEF CancelCheck, CancelSet, PollBegin, workerVars, poolVars, StrandedInv
<1>10. CASE PollField \/ UNCHANGED vars
  BY <1>2, <1>10 DEF PollField, vars, workerVars, poolVars
<1> QED
  BY <1>1, <1>3, <1>4, <1>6, <1>7, <1>8, <1>9, <1>10 DEF Next, StrandedInv

\* The gauge is the number of jobs in flight up to the first shutdown, and from
\* then on too high by the jobs that are stranded (GaugeOffByStranded of
\* JobManager).
THEOREM GaugeIsOffByStranded == Spec => []GaugeOffByStranded
<1> DEFINE Inv == GaugeInv /\ StrandedInv
<1>1. Init => Inv
  <2> SUFFICES ASSUME Init PROVE Inv
    OBVIOUS
  <2>1. Counted = {} /\ Stranded = {}
    BY DEF Init, Counted, Uncounted, Stranded
  <2> QED
    BY <2>1, FS_EmptySet DEF Init, GaugeInv, StrandedInv
<1>2. Inv /\ TypeOK /\ [Next]_vars => Inv'
  BY GaugeStep, StrandedStep
<1>3. Inv /\ TypeOK => GaugeOffByStranded
  <2> SUFFICES ASSUME Inv, TypeOK PROVE GaugeOffByStranded
    OBVIOUS
  <2>1. Counted = InFlight \cup Stranded /\ InFlight \cap Stranded = {}
    BY DEF Counted, Uncounted, InFlight, Stranded, TypeOK, Point, Submitting, Busy, Running, Leaving
  <2>2. IsFiniteSet(InFlight) /\ IsFiniteSet(Stranded)
    BY <2>1, FS_Subset DEF GaugeInv
  <2>3. Cardinality(Counted) = Cardinality(InFlight) + Cardinality(Stranded)
    <3>1. Cardinality(InFlight \cup Stranded)
            = Cardinality(InFlight) + Cardinality(Stranded) - Cardinality(InFlight \cap Stranded)
      BY <2>2, FS_Union
    <3>2. Cardinality(InFlight) \in Nat /\ Cardinality(Stranded) \in Nat
      BY <2>2, FS_CardinalityType
    <3>3. Cardinality(InFlight \cap Stranded) = 0
      BY <2>1, FS_EmptySet
    <3> QED
      BY <2>1, <3>1, <3>2, <3>3
  <2> QED
    BY <2>3 DEF GaugeInv, StrandedInv, GaugeOffByStranded
<1>4. Spec => []TypeOK
  BY TypeCorrect, PTL
<1> QED
  BY <1>1, <1>2, <1>3, <1>4, PTL DEF Spec
===============================================================================
