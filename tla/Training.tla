-------------------------------- MODULE Training --------------------------------
(***************************************************************************)
(* The training loop (src/visionforge/models/centernet/engine.py, train):  *)
(* one process at a time works on an output directory, writes last.pt      *)
(* after every epoch and best.pt and best_slim.pt after a good one, may    *)
(* stop anywhere, and is started again, from a checkpoint or afresh.       *)
(*                                                                         *)
(* Weights are what tells two models apart here: how many optimizer steps  *)
(* they have taken and the mAP that evaluate gives them, a number that may *)
(* turn out to be anything.  torch.save opens the file, which empties it,  *)
(* and writes: a stop in between leaves a file that does not load.         *)
(***************************************************************************)
EXTENDS Naturals

CONSTANTS
    Epochs,         \* cfg.epochs, the same for every start
    Batches,        \* len(train_loader)
    MaxMap,         \* mAP is one of 0..MaxMap
    Resumes,        \* what --resume may be: a file of the directory, or "none"
    MaxStops        \* bound: how often the process stops before its end

ASSUME EpochsAssumption == Epochs \in Nat
ASSUME BatchesAssumption == Batches \in Nat
ASSUME MapAssumption == MaxMap \in Nat
ASSUME ResumesAssumption == Resumes \subseteq {"none", "last", "best"}
ASSUME StopsAssumption == MaxStops \in Nat

VARIABLES
    pc,         \* where train is; "off" when no process runs
    epoch,      \* the loop variable
    batch,      \* n_batches
    globalStep, \* global_step
    steps,      \* optimizer steps the weights have taken
    map,        \* metrics["map"], of the weights
    bestMap,    \* best_map
    file,       \* last.pt, best.pt and best_slim.pt
    target,     \* history: best_map at the start, or the best mAP seen since
    won,        \* history: has this run seen that mAP itself
    champion,   \* history: the best mAP ever saved as best.pt since a fresh start
    stops       \* how often the process has stopped before its end

vars == <<pc, epoch, batch, globalStep, steps, map, bestMap, file, target, won, champion, stops>>

StepsPerEpoch == IF Batches > 1 THEN Batches ELSE 1

Paths == {"last", "best", "slim"}

Missing == [state |-> "missing", epoch |-> 0, steps |-> 0, map |-> 0, best |-> 0]
Torn == [Missing EXCEPT !.state = "torn"]

Init ==
    /\ pc = "off"
    /\ epoch = 0 /\ batch = 0 /\ globalStep = 0 /\ steps = 0
    /\ map = 0 /\ bestMap = 0
    /\ file = [p \in Paths |-> Missing]
    /\ target = 0 /\ won = FALSE /\ champion = 0
    /\ stops = 0
-------------------------------------------------------------------------------
Larger(a, b) == IF a > b THEN a ELSE b

\* train with resume=None, or with a path that does not exist, which it
\* does not mention.
StartFresh(resume) ==
    /\ pc = "off"
    /\ resume # "none" => file[resume].state = "missing"
    /\ pc' = "loop"
    /\ epoch' = 0 /\ globalStep' = 0 /\ steps' = 0
    /\ map' = 0 /\ bestMap' = 0
    /\ target' = 0 /\ won' = FALSE /\ champion' = 0
    /\ UNCHANGED <<batch, file, stops>>

\* Mutant: the epoch of the checkpoint is run again.
ResumeSameEpoch(path) ==
    /\ pc = "off"
    /\ file[path].state = "whole"
    /\ pc' = "loop"
    /\ epoch' = file[path].epoch
    /\ globalStep' = epoch' * StepsPerEpoch
    /\ steps' = file[path].steps
    /\ map' = file[path].map
    /\ bestMap' = file[path].best
    /\ target' = file[path].best
    /\ won' = FALSE
    /\ UNCHANGED <<batch, file, champion, stops>>

\* train with a checkpoint to resume from.  A torn one raises in torch.load
\* and nothing happens.
Resume(path) ==
    /\ pc = "off"
    /\ file[path].state = "whole"
    /\ pc' = "loop"
    /\ epoch' = file[path].epoch + 1
    /\ globalStep' = epoch' * StepsPerEpoch
    /\ steps' = file[path].steps
    /\ map' = file[path].map
    /\ bestMap' = file[path].best
    /\ target' = file[path].best
    /\ won' = FALSE
    /\ UNCHANGED <<batch, file, champion, stops>>

BeginEpoch ==
    /\ pc = "loop"
    /\ epoch < Epochs
    /\ pc' = "train"
    /\ batch' = 0
    /\ UNCHANGED <<epoch, globalStep, steps, map, bestMap, file, target, won, champion, stops>>

\* One batch: the learning rate is that of globalStep, then the optimizer
\* makes its step.
TrainBatch ==
    /\ pc = "train"
    /\ batch < Batches
    /\ batch' = batch + 1
    /\ globalStep' = globalStep + 1
    /\ steps' = steps + 1
    /\ UNCHANGED <<pc, epoch, map, bestMap, file, target, won, champion, stops>>

Evaluate ==
    /\ pc = "train"
    /\ batch = Batches
    /\ map' \in 0..MaxMap
    /\ target' = Larger(target, map')
    /\ won' = (won \/ map' >= target)
    /\ pc' = "openLast"
    /\ UNCHANGED <<epoch, batch, globalStep, steps, bestMap, file, champion, stops>>

\* torch.save, its first effect and its last.
Open(path, from, to) ==
    /\ pc = from
    /\ pc' = to
    /\ file' = [file EXCEPT ![path] = Torn]

Close(path, from) ==
    /\ pc = from
    /\ file' = [file EXCEPT ![path] =
        [state |-> "whole", epoch |-> epoch, steps |-> steps, map |-> map, best |-> bestMap]]

OpenLast ==
    /\ Open("last", "openLast", "closeLast")
    /\ UNCHANGED <<epoch, batch, globalStep, steps, map, bestMap, target, won, champion, stops>>

\* Mutants: the new best_map is forgotten; last.pt is not yet on disk when
\* best.pt is opened; an epoch without progress is undone and run again.
CloseLastKeepsBest ==
    /\ Close("last", "closeLast")
    /\ IF map >= bestMap
       THEN pc' = "openBest" /\ UNCHANGED <<bestMap, epoch>>
       ELSE pc' = "loop" /\ epoch' = epoch + 1 /\ UNCHANGED bestMap
    /\ UNCHANGED <<batch, globalStep, steps, map, target, won, champion, stops>>

CloseLastLater ==
    /\ pc = "closeLast"
    /\ IF map >= bestMap
       THEN pc' = "openBest" /\ bestMap' = map /\ UNCHANGED epoch
       ELSE pc' = "loop" /\ epoch' = epoch + 1 /\ UNCHANGED bestMap
    /\ UNCHANGED <<batch, globalStep, steps, map, file, target, won, champion, stops>>

CloseLastUndoes ==
    /\ Close("last", "closeLast")
    /\ IF map >= bestMap
       THEN pc' = "openBest" /\ bestMap' = map /\ UNCHANGED <<globalStep, steps>>
       ELSE /\ pc' = "loop" /\ UNCHANGED bestMap
            /\ steps' = epoch * Batches /\ globalStep' = epoch * StepsPerEpoch
    /\ UNCHANGED <<epoch, batch, map, target, won, champion, stops>>

\* last.pt is complete, with the best_map of the epochs BEFORE this one;
\* only then is the new map compared with it.
CloseLast ==
    /\ Close("last", "closeLast")
    /\ IF map >= bestMap
       THEN pc' = "openBest" /\ bestMap' = map /\ UNCHANGED epoch
       ELSE pc' = "loop" /\ epoch' = epoch + 1 /\ UNCHANGED bestMap
    /\ UNCHANGED <<batch, globalStep, steps, map, target, won, champion, stops>>

OpenBest ==
    /\ Open("best", "openBest", "closeBest")
    /\ UNCHANGED <<epoch, batch, globalStep, steps, map, bestMap, target, won, champion, stops>>

CloseBest ==
    /\ Close("best", "closeBest")
    /\ pc' = "openSlim"
    /\ champion' = Larger(champion, map)
    /\ UNCHANGED <<epoch, batch, globalStep, steps, map, bestMap, target, won, stops>>

OpenSlim ==
    /\ Open("slim", "openSlim", "closeSlim")
    /\ UNCHANGED <<epoch, batch, globalStep, steps, map, bestMap, target, won, champion, stops>>

\* The slim checkpoint has no epoch and no optimizer state; it is not for
\* resuming from.
CloseSlim ==
    /\ Close("slim", "closeSlim")
    /\ pc' = "loop"
    /\ epoch' = epoch + 1
    /\ UNCHANGED <<batch, globalStep, steps, map, bestMap, target, won, champion, stops>>

\* The loop is over and train returns; so does it when the checkpoint was
\* that of the last epoch.
Finish ==
    /\ pc = "loop"
    /\ epoch >= Epochs
    /\ pc' = "off"
    /\ UNCHANGED <<epoch, batch, globalStep, steps, map, bestMap, file, target, won, champion, stops>>

\* The process is killed, or a batch, an evaluation or a write raises.
Stop ==
    /\ pc # "off"
    /\ stops < MaxStops
    /\ stops' = stops + 1
    /\ pc' = "off"
    /\ UNCHANGED <<epoch, batch, globalStep, steps, map, bestMap, file, target, won, champion>>

Step ==
    \/ BeginEpoch \/ TrainBatch \/ Evaluate
    \/ OpenLast \/ CloseLast \/ OpenBest \/ CloseBest \/ OpenSlim \/ CloseSlim
    \/ Finish

Next ==
    \/ \E resume \in Resumes : StartFresh(resume)
    \/ \E resume \in Resumes \ {"none"} : Resume(resume)
    \/ Step
    \/ Stop

Spec == Init /\ [][Next]_vars

\* A process that runs goes on; nobody has to start one.
FairSpec == Spec /\ WF_vars(Step)
-------------------------------------------------------------------------------
Point == {"off", "loop", "train", "openLast", "closeLast", "openBest", "closeBest",
          "openSlim", "closeSlim"}

Checkpoint == [state : {"missing", "torn", "whole"}, epoch : Nat, steps : Nat,
               map : 0..MaxMap, best : 0..MaxMap]

TypeOK ==
    /\ pc \in Point
    /\ epoch \in Nat /\ batch \in 0..Batches /\ globalStep \in Nat /\ steps \in Nat
    /\ map \in 0..MaxMap /\ bestMap \in 0..MaxMap
    /\ file \in [Paths -> Checkpoint]
    /\ target \in 0..MaxMap /\ won \in BOOLEAN /\ champion \in 0..MaxMap
    /\ stops \in 0..MaxStops

\* However often training stops and resumes, no batch is counted twice and
\* none is lost: the position in the learning-rate schedule is the number of
\* steps the weights have taken (a data set smaller than one batch, which
\* drop_last empties, apart), and a checkpoint of epoch e holds weights of
\* exactly e + 1 epochs.
ScheduleInStep ==
    /\ pc # "off" /\ Batches > 0 => globalStep = steps
    /\ pc = "loop" => steps = epoch * Batches
    /\ pc = "train" => steps = epoch * Batches + batch
    /\ pc \notin {"off", "loop", "train"} => steps = (epoch + 1) * Batches
    /\ \A p \in Paths : file[p].state = "whole" =>
            file[p].steps = (file[p].epoch + 1) * Batches

\* Between epochs, best_map is the best mAP there was since the start, the
\* checkpoint's own best_map included; and once this run has reached it
\* itself, best.pt holds a model that has it.
BestOfRun ==
    pc = "loop" =>
        /\ bestMap = target
        /\ won => file["best"].state = "whole" /\ file["best"].map = target

\* One stop at the worst moment never costs everything: as soon as an epoch
\* is complete, last.pt or best.pt can be resumed from.
SurvivesOneStop ==
    pc = "off" /\ stops <= 1 /\ file["best"].state # "missing" =>
        \E p \in {"last", "best"} : file[p].state = "whole"

\* A run that is not stopped ends.
RunEnds == pc # "off" ~> pc = "off"

\* "best-checkpoint saving, and resumable checkpoints" (engine.py:9): while
\* training is only ever resumed, best.pt, once complete, is the best model
\* that was saved as such.
BestIsKept == file["best"].state = "whole" => file["best"].map >= champion
===============================================================================
