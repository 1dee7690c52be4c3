\* Three epochs of two batches, three values of mAP, two stops anywhere, and
\* every way to start again.
CONSTANTS
    Epochs = 3
    Batches = 2
    MaxMap = 2
    Resumes = {"none", "last", "best"}
    MaxStops = 2
SPECIFICATION FairSpec
INVARIANTS ScheduleInStep BestOfRun SurvivesOneStop
PROPERTY RunEnds
