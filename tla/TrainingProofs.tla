----------------------------- MODULE TrainingProofs -----------------------------
(***************************************************************************)
(* Theorems about Training for any number of epochs, batches and stops.    *)
(***************************************************************************)
EXTENDS Training, TLAPS

\* A few batches more than a whole number of epochs: all the arithmetic of
\* the schedule.
LEMMA NextEpoch ==
    ASSUME NEW e \in Nat
    PROVE  /\ (e + 1) * Batches = e * Batches + Batches
           /\ e * Batches \in Nat
           /\ e * StepsPerEpoch \in Nat
           /\ Batches > 0 => StepsPerEpoch = Batches
<1>. StepsPerEpoch \in Nat
  BY BatchesAssumption DEF StepsPerEpoch
<1>1. e * StepsPerEpoch \in Nat
  OBVIOUS
<1>2. Batches > 0 => StepsPerEpoch = Batches
  BY BatchesAssumption DEF StepsPerEpoch
<1>. QED
  BY <1>1, <1>2, BatchesAssumption

\* Initially everything has its type.
LEMMA TypedInitially == Init => TypeOK
<1>. SUFFICES ASSUME Init PROVE TypeOK
  OBVIOUS
<1>1. Missing \in Checkpoint
  BY MapAssumption DEF Missing, Checkpoint
<1>2. file \in [Paths -> Checkpoint]
  BY <1>1 DEF Init
<1>3. batch \in 0..Batches /\ stops \in 0..MaxStops
  BY BatchesAssumption, StopsAssumption DEF Init
<1>4. map \in 0..MaxMap /\ bestMap \in 0..MaxMap /\ target \in 0..MaxMap /\ champion \in 0..MaxMap
  BY MapAssumption DEF Init
<1>. QED
  BY <1>2, <1>3, <1>4 DEF Init, TypeOK, Point

\* What torch.save leaves in a file is a checkpoint, or a torn one.
LEMMA SavesTyped ==
    ASSUME TypeOK, NEW path \in Paths, NEW from, NEW to
    PROVE  /\ Open(path, from, to) => pc' = to /\ file' \in [Paths -> Checkpoint]
           /\ Close(path, from) => file' \in [Paths -> Checkpoint]
<1>1. Torn \in Checkpoint
  BY MapAssumption DEF Torn, Missing, Checkpoint
<1>2. [state |-> "whole", epoch |-> epoch, steps |-> steps, map |-> map, best |-> bestMap]
        \in Checkpoint
  BY DEF TypeOK, Checkpoint
<1>3. file \in [Paths -> Checkpoint]
  BY DEF TypeOK
<1>. QED
  BY <1>1, <1>2, <1>3 DEF Open, Close

\* Every step keeps the types.
LEMMA TypedNext ==
    ASSUME TypeOK, [Next]_vars
    PROVE  TypeOK'
<1>. USE BatchesAssumption, MapAssumption, StopsAssumption DEF TypeOK, Point
<1>paths. {"last", "best", "slim"} = Paths
  BY DEF Paths
<1>1. ASSUME NEW resume \in Resumes, StartFresh(resume) PROVE TypeOK'
  <2>1. 0 \in Nat /\ 0 \in 0..MaxMap
    OBVIOUS
  <2>2. pc' \in Point /\ won' \in BOOLEAN
    BY <1>1 DEF StartFresh
  <2>. QED
    BY <1>1, <2>1, <2>2 DEF StartFresh
<1>2. ASSUME NEW resume \in Resumes \ {"none"}, Resume(resume) PROVE TypeOK'
  <2>1. resume \in Paths
    BY ResumesAssumption DEF Paths
  <2>2. file[resume] \in Checkpoint
    BY <2>1
  <2>3. /\ file[resume].epoch \in Nat /\ file[resume].steps \in Nat
        /\ file[resume].map \in 0..MaxMap /\ file[resume].best \in 0..MaxMap
    BY <2>2 DEF Checkpoint
  <2>4. (file[resume].epoch + 1) \in Nat
    BY <2>3
  <2>5. (file[resume].epoch + 1) * StepsPerEpoch \in Nat
    BY <2>4, NextEpoch
  <2>6. epoch' \in Nat /\ globalStep' \in Nat
    BY <1>2, <2>3, <2>4, <2>5 DEF Resume
  <2>7. pc' \in Point /\ won' \in BOOLEAN
    BY <1>2 DEF Resume
  <2>8. UNCHANGED <<batch, file, champion, stops>>
    BY <1>2 DEF Resume
  <2>9. /\ steps' \in Nat /\ map' \in 0..MaxMap /\ bestMap' \in 0..MaxMap
        /\ target' \in 0..MaxMap
    BY <1>2, <2>3 DEF Resume
  <2>. QED
    BY <2>6, <2>7, <2>8, <2>9
<1>3. CASE BeginEpoch
  BY <1>3 DEF BeginEpoch
<1>4. CASE TrainBatch
  BY <1>4 DEF TrainBatch
<1>5. CASE Evaluate
  BY <1>5 DEF Evaluate, Larger
<1>6. CASE OpenLast
  <2>1. file' \in [Paths -> Checkpoint] /\ pc' \in Point
    BY <1>6, <1>paths, SavesTyped DEF OpenLast
  <2>. QED
    BY <1>6, <2>1 DEF OpenLast
<1>7. CASE CloseLast
  <2>1. file' \in [Paths -> Checkpoint]
    BY <1>7, <1>paths, SavesTyped DEF CloseLast
  <2>. QED
    BY <1>7, <2>1 DEF CloseLast
<1>8. CASE OpenBest
  <2>1. file' \in [Paths -> Checkpoint] /\ pc' \in Point
    BY <1>8, <1>paths, SavesTyped DEF OpenBest
  <2>. QED
    BY <1>8, <2>1 DEF OpenBest
<1>9. CASE CloseBest
  <2>1. file' \in [Paths -> Checkpoint]
    BY <1>9, <1>paths, SavesTyped DEF CloseBest
  <2>. QED
    BY <1>9, <2>1 DEF CloseBest, Larger
<1>10. CASE OpenSlim
  <2>1. file' \in [Paths -> Checkpoint] /\ pc' \in Point
    BY <1>10, <1>paths, SavesTyped DEF OpenSlim
  <2>. QED
    BY <1>10, <2>1 DEF OpenSlim
<1>11. CASE CloseSlim
  <2>1. file' \in [Paths -> Checkpoint]
    BY <1>11, <1>paths, SavesTyped DEF CloseSlim
  <2>. QED
    BY <1>11, <2>1 DEF CloseSlim
<1>12. CASE Finish
  BY <1>12 DEF Finish
<1>13. CASE Stop
  BY <1>13 DEF Stop
<1>14. CASE UNCHANGED vars
  BY <1>14 DEF vars
<1>. QED
  BY <1>1, <1>2, <1>3, <1>4, <1>5, <1>6, <1>7, <1>8, <1>9, <1>10, <1>11, <1>12, <1>13, <1>14
     DEF Next, Step

\* Type correctness.
THEOREM TypeCorrect == Spec => []TypeOK
<1>1. TypeOK /\ [Next]_vars => TypeOK'
  BY TypedNext
<1>. QED
  BY <1>1, TypedInitially, PTL DEF Spec
-------------------------------------------------------------------------------
\* One step keeps the schedule, the weights and the checkpoints in step.
LEMMA ScheduleNext ==
    ASSUME TypeOK, ScheduleInStep, [Next]_vars
    PROVE  ScheduleInStep'
<1>. USE DEF ScheduleInStep
<1>types. /\ epoch \in Nat /\ steps \in Nat /\ globalStep \in Nat /\ batch \in 0..Batches
          /\ \A p \in Paths : file[p].epoch \in Nat
          /\ DOMAIN file = Paths
          /\ pc \in Point
  BY DEF TypeOK, Checkpoint
<1>next. /\ (epoch + 1) * Batches = epoch * Batches + Batches
         /\ epoch * Batches \in Nat
         /\ Batches \in Nat
  BY <1>types, NextEpoch, BatchesAssumption
<1>fresh. 0 * Batches = 0
  BY BatchesAssumption
<1>1. ASSUME NEW resume \in Resumes, StartFresh(resume) PROVE ScheduleInStep'
  BY <1>1, <1>fresh DEF StartFresh
<1>2. ASSUME NEW resume \in Resumes \ {"none"}, Resume(resume) PROVE ScheduleInStep'
  <2>1. resume \in Paths
    BY ResumesAssumption DEF Paths
  <2>2. file[resume].steps = (file[resume].epoch + 1) * Batches
    BY <1>2, <2>1 DEF Resume
  <2>3. Batches > 0 => StepsPerEpoch = Batches
    BY <1>types, NextEpoch
  <2>. QED
    BY <1>2, <2>1, <2>2, <2>3 DEF Resume
<1>3. CASE BeginEpoch
  BY <1>3, <1>types, <1>next DEF BeginEpoch
<1>4. CASE TrainBatch
  BY <1>4, <1>types, <1>next DEF TrainBatch
<1>5. CASE Evaluate
  BY <1>5, <1>types, <1>next DEF Evaluate
<1>6. CASE OpenLast
  BY <1>6, <1>types DEF OpenLast, Open, Torn, Missing
<1>7. CASE CloseLast
  BY <1>7, <1>types, <1>next DEF CloseLast, Close
<1>8. CASE OpenBest
  BY <1>8, <1>types DEF OpenBest, Open, Torn, Missing
<1>9. CASE CloseBest
  BY <1>9, <1>types DEF CloseBest, Close
<1>10. CASE OpenSlim
  BY <1>10, <1>types DEF OpenSlim, Open, Torn, Missing
<1>11. CASE CloseSlim
  BY <1>11, <1>types, <1>next DEF CloseSlim, Close
<1>12. CASE Finish
  BY <1>12 DEF Finish
<1>13. CASE Stop
  BY <1>13 DEF Stop
<1>14. CASE UNCHANGED vars
  BY <1>14 DEF vars
<1>. QED
  BY <1>1, <1>2, <1>3, <1>4, <1>5, <1>6, <1>7, <1>8, <1>9, <1>10, <1>11, <1>12, <1>13, <1>14
     DEF Next, Step

\* However training is stopped and resumed, weights, schedule and
\* checkpoints count the same batches.
THEOREM Schedule == Spec => []ScheduleInStep
<1>1. Init => ScheduleInStep
  BY DEF Init, ScheduleInStep, Missing, Paths
<1>2. TypeOK /\ ScheduleInStep /\ [Next]_vars => ScheduleInStep'
  BY ScheduleNext
<1>. QED
  BY <1>1, <1>2, TypeCorrect, PTL DEF Spec
-------------------------------------------------------------------------------
\* What BestOfRun rests on: best_map, the mAP at hand and best.pt at every
\* point of an epoch.
BestInv ==
    /\ pc \in {"loop", "train", "openSlim", "closeSlim"} =>
        /\ bestMap = target
        /\ won => file["best"].state = "whole" /\ file["best"].map = target
    /\ pc \in {"openLast", "closeLast"} =>
        /\ target = Larger(bestMap, map)
        /\ won /\ map < bestMap =>
            file["best"].state = "whole" /\ file["best"].map = target
    /\ pc \in {"openBest", "closeBest"} => bestMap = target /\ map = target

\* One step keeps it.
LEMMA BestNext ==
    ASSUME TypeOK, BestInv, [Next]_vars
    PROVE  BestInv'
<1>. USE DEF BestInv, Larger
<1>types. /\ map \in Nat /\ bestMap \in Nat /\ target \in Nat
          /\ file \in [Paths -> Checkpoint]
          /\ pc \in Point
  BY MapAssumption DEF TypeOK
<1>paths. Paths = {"last", "best", "slim"}
  BY DEF Paths
<1>1. ASSUME NEW resume \in Resumes, StartFresh(resume) PROVE BestInv'
  BY <1>1 DEF StartFresh
<1>2. ASSUME NEW resume \in Resumes \ {"none"}, Resume(resume) PROVE BestInv'
  BY <1>2 DEF Resume
<1>3. CASE BeginEpoch
  BY <1>3 DEF BeginEpoch
<1>4. CASE TrainBatch
  BY <1>4 DEF TrainBatch
<1>5. CASE Evaluate
  <2>1. map' \in Nat
    BY <1>5, MapAssumption DEF Evaluate
  <2>2. bestMap = target /\ (won => file["best"].state = "whole" /\ file["best"].map = target)
    BY <1>5 DEF Evaluate
  <2>3. target' = Larger(bestMap', map')
    BY <1>5, <2>2 DEF Evaluate
  <2>4. CASE map' < bestMap'
    <3>1. target' = target /\ file' = file /\ ~(map' >= target)
      BY <1>5, <1>types, <2>1, <2>2, <2>4 DEF Evaluate
    <3>2. won' = (won \/ map' >= target)
      BY <1>5 DEF Evaluate
    <3>3. won' => won
      BY <3>1, <3>2, Zenon
    <3>4. won' => file'["best"].state = "whole" /\ file'["best"].map = target'
      BY <2>2, <3>1, <3>3, Zenon
    <3>. QED
      BY <1>5, <2>3, <3>4 DEF Evaluate
  <2>5. CASE ~(map' < bestMap')
    BY <1>5, <2>3, <2>5 DEF Evaluate
  <2>. QED
    BY <2>4, <2>5
<1>6. CASE OpenLast
  BY <1>6, <1>types, <1>paths DEF OpenLast, Open
<1>7. CASE CloseLast
  BY <1>7, <1>types, <1>paths DEF CloseLast, Close
<1>8. CASE OpenBest
  BY <1>8, <1>types, <1>paths DEF OpenBest, Open
<1>9. CASE CloseBest
  BY <1>9, <1>types, <1>paths DEF CloseBest, Close
<1>10. CASE OpenSlim
  BY <1>10, <1>types, <1>paths DEF OpenSlim, Open
<1>11. CASE CloseSlim
  BY <1>11, <1>types, <1>paths DEF CloseSlim, Close
<1>12. CASE Finish
  BY <1>12 DEF Finish
<1>13. CASE Stop
  BY <1>13 DEF Stop
<1>14. CASE UNCHANGED vars
  BY <1>14 DEF vars
<1>. QED
  BY <1>1, <1>2, <1>3, <1>4, <1>5, <1>6, <1>7, <1>8, <1>9, <1>10, <1>11, <1>12, <1>13, <1>14
     DEF Next, Step

\* A run that reaches its best mAP itself has it in best.pt.
THEOREM Best == Spec => []BestOfRun
<1>1. Init => BestInv
  BY DEF Init, BestInv
<1>2. TypeOK /\ BestInv /\ [Next]_vars => BestInv'
  BY BestNext
<1>3. BestInv => BestOfRun
  BY DEF BestInv, BestOfRun
<1>. QED
  BY <1>1, <1>2, <1>3, TypeCorrect, PTL DEF Spec
-------------------------------------------------------------------------------
\* What SurvivesOneStop rests on.  Before the first stop only the file being
\* written is torn, and last.pt was there before best.pt; best.pt is written
\* only when last.pt is whole; and up to the second stop one of the two is
\* whole, except while last.pt is being written.
SafeInv ==
    /\ stops = 0 =>
        /\ file["last"].state = "torn" => pc = "closeLast"
        /\ file["best"].state = "torn" => pc = "closeBest"
    /\ pc \in {"openBest", "closeBest"} => file["last"].state = "whole"
    /\ stops <= 1 /\ file["best"].state # "missing" /\ pc # "closeLast" =>
        file["last"].state = "whole" \/ file["best"].state = "whole"

\* One step keeps it.
LEMMA SafeNext ==
    ASSUME TypeOK, SafeInv, [Next]_vars
    PROVE  SafeInv'
<1>. USE DEF SafeInv
<1>types. /\ stops \in Nat
          /\ file \in [Paths -> Checkpoint]
          /\ \A p \in Paths : file[p].state \in {"missing", "torn", "whole"}
  BY StopsAssumption DEF TypeOK, Checkpoint
<1>paths. Paths = {"last", "best", "slim"}
  BY DEF Paths
<1>torn. Torn.state = "torn"
  BY DEF Torn, Missing
<1>1. ASSUME NEW resume \in Resumes, StartFresh(resume) PROVE SafeInv'
  BY <1>1 DEF StartFresh
<1>2. ASSUME NEW resume \in Resumes \ {"none"}, Resume(resume) PROVE SafeInv'
  BY <1>2 DEF Resume
<1>3. CASE BeginEpoch
  BY <1>3 DEF BeginEpoch
<1>4. CASE TrainBatch
  BY <1>4 DEF TrainBatch
<1>5. CASE Evaluate
  BY <1>5 DEF Evaluate
<1>6. CASE OpenLast
  BY <1>6, <1>types, <1>paths, <1>torn DEF OpenLast, Open
<1>7. CASE CloseLast
  BY <1>7, <1>types, <1>paths DEF CloseLast, Close
<1>8. CASE OpenBest
  BY <1>8, <1>types, <1>paths, <1>torn DEF OpenBest, Open
<1>9. CASE CloseBest
  BY <1>9, <1>types, <1>paths DEF CloseBest, Close
<1>10. CASE OpenSlim
  BY <1>10, <1>types, <1>paths, <1>torn DEF OpenSlim, Open
<1>11. CASE CloseSlim
  BY <1>11, <1>types, <1>paths DEF CloseSlim, Close
<1>12. CASE Finish
  BY <1>12 DEF Finish
<1>13. CASE Stop
  BY <1>13, <1>types, <1>paths DEF Stop
<1>14. CASE UNCHANGED vars
  BY <1>14 DEF vars
<1>. QED
  BY <1>1, <1>2, <1>3, <1>4, <1>5, <1>6, <1>7, <1>8, <1>9, <1>10, <1>11, <1>12, <1>13, <1>14
     DEF Next, Step

\* A single stop, at any moment, leaves a checkpoint to resume from.
THEOREM OneStop == Spec => []SurvivesOneStop
<1>1. Init => SafeInv
  BY DEF Init, SafeInv, Missing, Paths
<1>2. TypeOK /\ SafeInv /\ [Next]_vars => SafeInv'
  BY SafeNext
<1>3. SafeInv => SurvivesOneStop
  BY DEF SafeInv, SurvivesOneStop
<1>. QED
  BY <1>1, <1>2, <1>3, TypeCorrect, PTL DEF Spec
===============================================================================
