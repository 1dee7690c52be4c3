\* Two jobs for one worker, each capped at one or two frames, cancelled at
\* any moment, and one shutdown, waiting or not, anywhere.
CONSTANTS
    Jobs = {j1, j2}
    NoJob = none
    MaxWorkers = 1
    MaxFramesPerJob = 2
    SourceFrames = {2}
    MaxFramesArgs = {0, 1}
    MaxShutdowns = 1
SPECIFICATION FairSpec
ACTION_CONSTRAINT Bounded
INVARIANTS JobInv SnapshotCoherent GaugeOffByStranded CancelStopsWork
PROPERTIES RefinesLifecycle EndsUnlessDropped ShutdownComesBack
CHECK_DEADLOCK FALSE
