\* Three epochs of one batch, one stop, resumed from last.pt or started afresh.
CONSTANTS
    Epochs = 3
    Batches = 1
    MaxMap = 2
    Resumes = {"none", "last"}
    MaxStops = 1
SPECIFICATION Spec
INVARIANT BestIsKept
