\* One job submitted while one shutdown is between its two statements.
CONSTANTS
    Jobs = {j1, j2}
    NoJob = none
    MaxWorkers = 1
    MaxFramesPerJob = 1
    SourceFrames = {1}
    MaxFramesArgs = {0}
    MaxShutdowns = 2
SPECIFICATION Spec
ACTION_CONSTRAINT Bounded
INVARIANT PoolUsable
CHECK_DEADLOCK FALSE
