\* One task, one job of one frame, no shutdown.
CONSTANTS
    Jobs = {j1}
    NoJob = none
    MaxWorkers = 1
    MaxFramesPerJob = 1
    SourceFrames = {1}
    MaxFramesArgs = {0}
    MaxShutdowns = 0
SPECIFICATION ArqSpec
PROPERTY TaskReturns
CHECK_DEADLOCK FALSE
